---- MODULE Spec2Model ----
(***************************************************************************)
(* BracketBot quickstart: ODrive motor calibration (calibrate_motors.py),  *)
(* the Motor drive library (lib/motor.py) and the two teleoperation entry  *)
(* points (test_wasd.py, test_wasd_stand.py), against a nondeterministic   *)
(* model of the two-axis ODrive.                                           *)
(***************************************************************************)
EXTENDS Integers, Sequences, FiniteSets, TLC

\* ------------------------------------------------------------------ bounds
\* Spontaneous device faults allowed in one run.
MaxFaults == 1

\* ------------------------------------------------------------- the device
Axes == {0, 1}

AXIS_STATE_UNDEFINED == "Undefined"
AXIS_STATE_IDLE == "Idle"
AXIS_STATE_MOTOR_CALIBRATION == "MotorCalibration"
AXIS_STATE_ENCODER_OFFSET_CALIBRATION == "EncoderOffsetCalibration"
AXIS_STATE_CLOSED_LOOP_CONTROL == "ClosedLoopControl"
AXIS_STATE_ERROR == "Error"

CONTROL_MODE_VELOCITY_CONTROL == "VelocityControl"
INPUT_MODE_PASSTHROUGH == "Passthrough"

AxisStates ==
    {AXIS_STATE_IDLE, AXIS_STATE_MOTOR_CALIBRATION,
     AXIS_STATE_ENCODER_OFFSET_CALIBRATION, AXIS_STATE_CLOSED_LOOP_CONTROL,
     AXIS_STATE_ERROR}

\* Error bits a fault may raise in a register (bitmask values).
FaultBits == {1}

RECURSIVE BitOr(_, _)
BitOr(x, y) ==
    IF x = 0 THEN y
    ELSE IF y = 0 THEN x
    ELSE (IF x % 2 = 1 \/ y % 2 = 1 THEN 1 ELSE 0) + 2 * BitOr(x \div 2, y \div 2)

VARIABLES
    \* the ODrive, per axis
    current_state,          \* operating state
    requested_state,        \* state request not yet taken up (Undefined: none)
    error,                  \* axis-level error bitmask
    motor_error,            \* motor-level error bitmask
    encoder_error,          \* encoder-level error bitmask
    faults,                 \* number of spontaneous faults so far
    input_vel,              \* controller.input_vel, in 0.001 turns/s
    vel_integrator_torque,  \* controller.vel_integrator_torque: 0, or 1 for wound up
    control_mode,           \* controller.config.control_mode
    input_mode,             \* controller.config.input_mode
    vel_ramp_rate,          \* controller.config.vel_ramp_rate, in 0.001 turns/s^2
    vel_gain,               \* controller.config.vel_gain, in 1e-7
    vel_integrator_gain,    \* controller.config.vel_integrator_gain, in 1e-7
    torque_constant,        \* motor.config.torque_constant, in 1e-7
    cpr,                    \* encoder.config.cpr
    pre_calibrated,         \* <<motor, encoder>> config.pre_calibrated
    \* calibrate_motors.py
    log,                    \* device accesses of the calibration run, in order
    save_called,            \* save_configuration() was invoked
    reboot_called,          \* reboot() was invoked
    axis_num,               \* main: loop variable
    success,                \* main: value returned by calibrate_axis
    stdout,                 \* messages printed, as <<tag, axis>>
    \* lib/motor.py and test_wasd.py
    odrv,                   \* Motor._odrv is set (the connection was obtained)
    speed,                  \* Motor.speed
    turn_speed,             \* Motor.turn_speed; turn_speed of test_wasd_stand.py
    listening,              \* listen_keyboard is dispatching key events
    callbacks,              \* key callbacks in flight (sequential=False)
    \* test_wasd_stand.py
    last_command,           \* last movement key, "none" for None
    move_speed,
    steer_correction_enabled,
    steer_integral,         \* in 0.001 turns
    since,                  \* time.time() - last_correction_time, in ms
    adjusts,                \* speed and ramp adjustments so far
    \* what the entry point has asked of the axes so far
    cl_requested,           \* axes on which closed-loop control was requested
    idle_requested,         \* axes on which Idle was requested
    \* position of the running entry point
    pc

devState == <<current_state, requested_state, error, motor_error, encoder_error,
              faults>>
cfgVars == <<control_mode, input_mode, vel_ramp_rate, vel_gain,
             vel_integrator_gain, torque_constant, cpr, pre_calibrated>>
devVars == <<devState, input_vel, vel_integrator_torque, cfgVars>>
calVars == <<log, save_called, reboot_called, axis_num, success, stdout>>
motorVars == <<odrv, speed, turn_speed, listening, callbacks>>
standVars == <<last_command, move_speed, steer_correction_enabled,
               steer_integral, since, adjusts>>
teleVars == <<motorVars, standVars, cl_requested, idle_requested>>
progVars == <<calVars, teleVars, pc>>
vars == <<devVars, progVars>>

\* -------------------------------------------------------- device behaviour
\* The axis takes up a pending state request: it enters the state, or
\* refuses it (stays Idle with an axis error raised).
DevAccept(a) ==
    /\ requested_state[a] # AXIS_STATE_UNDEFINED
    /\ requested_state' = [requested_state EXCEPT ![a] = AXIS_STATE_UNDEFINED]
    /\ \/ /\ current_state' = [current_state EXCEPT ![a] = requested_state[a]]
          /\ UNCHANGED error
       \/ /\ requested_state[a] # AXIS_STATE_IDLE
          /\ current_state' = [current_state EXCEPT ![a] = AXIS_STATE_IDLE]
          /\ \E b \in FaultBits : error' = [error EXCEPT ![a] = BitOr(@, b)]
    /\ UNCHANGED <<motor_error, encoder_error, faults, input_vel,
                   vel_integrator_torque, cfgVars, progVars>>

\* A running calibration ends: the axis falls back to Idle, with or without
\* error bits in the axis register and in the register of the subsystem.
DevFinish(a) ==
    /\ current_state[a] \in {AXIS_STATE_MOTOR_CALIBRATION,
                             AXIS_STATE_ENCODER_OFFSET_CALIBRATION}
    /\ current_state' = [current_state EXCEPT ![a] = AXIS_STATE_IDLE]
    /\ \E ea \in {0} \cup FaultBits, es \in {0} \cup FaultBits :
          /\ error' = [error EXCEPT ![a] = BitOr(@, ea)]
          /\ IF current_state[a] = AXIS_STATE_MOTOR_CALIBRATION
             THEN /\ motor_error' = [motor_error EXCEPT ![a] = BitOr(@, es)]
                  /\ UNCHANGED encoder_error
             ELSE /\ encoder_error' = [encoder_error EXCEPT ![a] = BitOr(@, es)]
                  /\ UNCHANGED motor_error
    /\ UNCHANGED <<requested_state, faults, input_vel, vel_integrator_torque,
                   cfgVars, progVars>>

\* A spontaneous fault: one bit raised in one register; the axis keeps its
\* state, drops to Idle or enters the Error state.
DevFault(a) ==
    /\ faults < MaxFaults
    /\ faults' = faults + 1
    /\ \E b \in FaultBits :
          \/ /\ error' = [error EXCEPT ![a] = BitOr(@, b)]
             /\ UNCHANGED <<motor_error, encoder_error>>
          \/ /\ motor_error' = [motor_error EXCEPT ![a] = BitOr(@, b)]
             /\ UNCHANGED <<error, encoder_error>>
          \/ /\ encoder_error' = [encoder_error EXCEPT ![a] = BitOr(@, b)]
             /\ UNCHANGED <<error, motor_error>>
    /\ \E s \in {current_state[a], AXIS_STATE_IDLE, AXIS_STATE_ERROR} :
          current_state' = [current_state EXCEPT ![a] = s]
    /\ UNCHANGED <<requested_state, input_vel, vel_integrator_torque, cfgVars,
                   progVars>>

Device == \E a \in Axes : DevAccept(a) \/ DevFinish(a) \/ DevFault(a)

\* ------------------------------------------------ calibrate_motors.py
CalTestVel == 500

\* input() answers of the operator.
Responses == {"yes", "YES", "Yes", "y", "no", ""}

\* Mutant: the answer is compared as typed.
Lower_AsTyped(s) == s

\* str.lower() on the answers above.
Lower(s) == IF s \in {"YES", "Yes"} THEN "yes" ELSE s

\* Python values returned by calibrate_axis: True, or the tuple (odrv, False).
RetNone == [kind |-> "none", len |-> 0, b |-> FALSE]
RetTrue == [kind |-> "bool", len |-> 0, b |-> TRUE]
RetOdrvFalse == [kind |-> "tuple", len |-> 2, b |-> FALSE]

\* Python truth value: a bool is itself, a tuple is true unless empty.
Truthy(v) ==
    CASE v.kind = "bool" -> v.b
      [] v.kind = "tuple" -> v.len > 0
      [] OTHER -> FALSE

\* A device access appended to the log: state is the operating state written
\* or read ("" where none is), val the number written or read.
Logged(a, op, st, val) ==
    Append(log, [axis |-> a, op |-> op, state |-> st, val |-> val])

\* main: the operator's confirmation.
MainConfirm(response) ==
    /\ pc = "m_confirm"
    /\ pc' = IF Lower(response) # "yes" THEN "exit" ELSE "m_connect"
    /\ UNCHANGED <<teleVars, devVars, calVars>>

\* main: connect_odrive() returns the device or raises, which ends the run.
MainConnect(found) ==
    /\ pc = "m_connect"
    /\ IF found
       THEN /\ pc' = "ca_clear"
            /\ axis_num' = 0
       ELSE /\ pc' = "exit"
            /\ UNCHANGED axis_num
    /\ UNCHANGED <<teleVars, devVars, log, save_called, reboot_called, success, stdout>>

\* calibrate_axis: clear_errors().
CalClearErrors ==
    /\ pc = "ca_clear"
    /\ error' = [error EXCEPT ![axis_num] = 0]
    /\ motor_error' = [motor_error EXCEPT ![axis_num] = 0]
    /\ encoder_error' = [encoder_error EXCEPT ![axis_num] = 0]
    /\ log' = Logged(axis_num, "clear_errors", "", 0)
    /\ pc' = "ca_precheck"
    /\ UNCHANGED <<teleVars, current_state, requested_state, faults, input_vel,
                   vel_integrator_torque, cfgVars,
                   save_called, reboot_called, axis_num, success, stdout>>

\* The failure return of calibrate_axis: print the stage's message and
\* return (odrv, False) to main.
ReturnFailure(tag) ==
    /\ stdout' = stdout \cup {<<tag, axis_num>>}
    /\ success' = RetOdrvFalse
    /\ pc' = "m_check"

\* Mutant: the check looks at the axis register alone.
PreCheckFails_AxisOnly(a) == error[a] # 0

\* The condition of the check for errors before configuring.
PreCheckFails(a) == error[a] # 0 \/ motor_error[a] # 0 \/ encoder_error[a] # 0

CalPreCheck ==
    /\ pc = "ca_precheck"
    /\ IF PreCheckFails(axis_num)
       THEN ReturnFailure("axis_has_errors")
       ELSE /\ pc' = "ca_config"
            /\ UNCHANGED <<success, stdout>>
    /\ UNCHANGED <<teleVars, devVars, log, save_called, reboot_called, axis_num>>

\* Where calibrate_axis goes after the configuration writes.
AfterConfigure(a) == "ca_req_mc"

\* motor.config.torque_constant = 8.27 / 16.0, in 1e-7
TorqueConstantHall == 5168750
\* encoder.config.cpr = 90
CprHall == 90

\* vel_gain = 0.02 * torque_constant * cpr, read back from the registers.
VelGainFor(tc, c) == (2 * tc * c) \div 100
\* Mutant: the integrator gain takes the ratio of the velocity gain.
VelIntegratorGainFor_SameRatio(tc, c) == (2 * tc * c) \div 100

\* vel_integrator_gain = 0.1 * torque_constant * cpr
VelIntegratorGainFor(tc, c) == (tc * c) \div 10

\* Motor, encoder and controller configuration writes.
CalConfigure ==
    /\ pc = "ca_config"
    /\ torque_constant' = [torque_constant EXCEPT ![axis_num] = TorqueConstantHall]
    /\ cpr' = [cpr EXCEPT ![axis_num] = CprHall]
    /\ vel_gain' = [vel_gain EXCEPT ![axis_num] =
                        VelGainFor(torque_constant'[axis_num], cpr'[axis_num])]
    /\ vel_integrator_gain' = [vel_integrator_gain EXCEPT ![axis_num] =
                        VelIntegratorGainFor(torque_constant'[axis_num], cpr'[axis_num])]
    /\ control_mode' = [control_mode EXCEPT ![axis_num] = CONTROL_MODE_VELOCITY_CONTROL]
    /\ log' = Logged(axis_num, "config", "", 0)
    /\ pc' = AfterConfigure(axis_num)
    /\ UNCHANGED <<teleVars, devState, input_vel, vel_integrator_torque,
                   input_mode, vel_ramp_rate, pre_calibrated,
                   save_called, reboot_called, axis_num, success, stdout>>

\* axis.requested_state = target.
RequestState(here, target, next) ==
    /\ pc = here
    /\ requested_state' = [requested_state EXCEPT ![axis_num] = target]
    /\ log' = Logged(axis_num, "requested_state", target, 0)
    /\ pc' = next
    /\ UNCHANGED <<teleVars, current_state, error, motor_error, encoder_error,
                   input_vel, vel_integrator_torque, cfgVars,
                   faults, save_called, reboot_called, axis_num, success, stdout>>

\* while axis.current_state == busy: time.sleep(0.1)
PollWhile(here, busy, sleep, next) ==
    /\ pc = here
    /\ pc' = IF current_state[axis_num] = busy THEN sleep ELSE next
    /\ UNCHANGED <<teleVars, devVars, calVars>>

\* wait_for_idle: while axis.current_state != AXIS_STATE_IDLE: time.sleep(0.1)
wait_for_idle(here, sleep, next) ==
    /\ pc = here
    /\ IF current_state[axis_num] # AXIS_STATE_IDLE
       THEN /\ pc' = sleep
            /\ UNCHANGED log
       ELSE /\ pc' = next
            /\ log' = Logged(axis_num, "seen_idle", current_state[axis_num], 0)
    /\ UNCHANGED <<teleVars, devVars, save_called, reboot_called, axis_num, success, stdout>>

\* time.sleep(0.1) of a poll loop.
Sleep(here, back) ==
    /\ pc = here
    /\ pc' = back
    /\ UNCHANGED <<teleVars, devVars, calVars>>

\* Mutant: the check after a calibration state is left out.
StageCheckFails_Never(a) == FALSE

\* The condition of the check for errors after a calibration state.
StageCheckFails(a) == error[a] # 0

\* The error check after the device is seen Idle.
StageCheck(here, op, tag, next) ==
    /\ pc = here
    /\ log' = Logged(axis_num, op, "", error[axis_num])
    /\ IF StageCheckFails(axis_num)
       THEN ReturnFailure(tag)
       ELSE /\ pc' = next
            /\ UNCHANGED <<success, stdout>>
    /\ UNCHANGED <<teleVars, devVars, save_called, reboot_called, axis_num>>

CalRequestMotorCalibration ==
    RequestState("ca_req_mc", AXIS_STATE_MOTOR_CALIBRATION, "ca_poll_mc")
CalPollMotorCalibration ==
    PollWhile("ca_poll_mc", AXIS_STATE_MOTOR_CALIBRATION, "ca_sleep_mc", "ca_idle_mc")
CalSleepMotorCalibration == Sleep("ca_sleep_mc", "ca_poll_mc")
CalWaitIdleMotor == wait_for_idle("ca_idle_mc", "ca_idlesleep_mc", "ca_chk_mc")
CalSleepIdleMotor == Sleep("ca_idlesleep_mc", "ca_idle_mc")
CalCheckMotor ==
    StageCheck("ca_chk_mc", "check_motor", "motor_cal_failed", "ca_req_eoc")

CalRequestEncoderCalibration ==
    RequestState("ca_req_eoc", AXIS_STATE_ENCODER_OFFSET_CALIBRATION, "ca_poll_eoc")
CalPollEncoderCalibration ==
    PollWhile("ca_poll_eoc", AXIS_STATE_ENCODER_OFFSET_CALIBRATION,
              "ca_sleep_eoc", "ca_idle_eoc")
CalSleepEncoderCalibration == Sleep("ca_sleep_eoc", "ca_poll_eoc")
CalWaitIdleEncoder == wait_for_idle("ca_idle_eoc", "ca_idlesleep_eoc", "ca_chk_eoc")
CalSleepIdleEncoder == Sleep("ca_idlesleep_eoc", "ca_idle_eoc")
\* Mutant: the script goes on to mark the axis without the encoder check.
CalCheckEncoder_Unchecked == Sleep("ca_chk_eoc", "ca_mark")

CalCheckEncoder ==
    StageCheck("ca_chk_eoc", "check_encoder", "encoder_cal_failed", "ca_mark")

\* encoder.config.pre_calibrated = True; motor.config.pre_calibrated = True
CalMarkPreCalibrated ==
    /\ pc = "ca_mark"
    /\ pre_calibrated' = [pre_calibrated EXCEPT ![axis_num] = <<TRUE, TRUE>>]
    /\ log' = Logged(axis_num, "pre_calibrated", "", 1)
    /\ pc' = "ca_req_cl"
    /\ UNCHANGED <<teleVars, devState, input_vel, vel_integrator_torque,
                   control_mode, input_mode, vel_ramp_rate, vel_gain,
                   vel_integrator_gain, torque_constant, cpr,
                   save_called, reboot_called, axis_num, success, stdout>>

CalRequestClosedLoop ==
    RequestState("ca_req_cl", AXIS_STATE_CLOSED_LOOP_CONTROL, "ca_verify")

\* Mutant: the closed-loop test accepts any state.
VerifyFails_Never(a) == FALSE

\* The condition of the closed-loop test after the settle time.
VerifyFails(a) == current_state[a] # AXIS_STATE_CLOSED_LOOP_CONTROL

CalVerifyClosedLoop ==
    /\ pc = "ca_verify"
    /\ log' = Logged(axis_num, "verify", current_state[axis_num], 0)
    /\ IF VerifyFails(axis_num)
       THEN ReturnFailure("closed_loop_failed")
       ELSE /\ pc' = "ca_vel_on"
            /\ UNCHANGED <<success, stdout>>
    /\ UNCHANGED <<teleVars, devVars, save_called, reboot_called, axis_num>>

\* axis.controller.input_vel = v
WriteInputVel(here, v, next) ==
    /\ pc = here
    /\ input_vel' = [input_vel EXCEPT ![axis_num] = v]
    /\ log' = Logged(axis_num, "input_vel", "", v)
    /\ pc' = next
    /\ UNCHANGED <<teleVars, devState, vel_integrator_torque, cfgVars,
                   save_called, reboot_called, axis_num, success, stdout>>

\* control_mode is set to velocity control again (as CalConfigure left it)
\* before the test setpoint is written.
CalVelocityOn == WriteInputVel("ca_vel_on", CalTestVel, "ca_vel_off")
\* Mutant: the test setpoint is written again in place of zero.
CalVelocityOff_StillSpinning ==
    WriteInputVel("ca_vel_off", CalTestVel, "ca_req_idle")

CalVelocityOff == WriteInputVel("ca_vel_off", 0, "ca_req_idle")
CalRequestIdle == RequestState("ca_req_idle", AXIS_STATE_IDLE, "ca_done")

\* The success return of calibrate_axis.
CalReturnTrue ==
    /\ pc = "ca_done"
    /\ stdout' = stdout \cup {<<"axis_complete", axis_num>>}
    /\ success' = RetTrue
    /\ pc' = "m_check"
    /\ UNCHANGED <<teleVars, devVars, log, save_called, reboot_called, axis_num>>

\* main: "if not success" on the value calibrate_axis returned.
CalibrationFailed(v) == ~Truthy(v)

\* main: the loop over [0, 1] after a call of calibrate_axis returned.
MainCheckSuccess ==
    /\ pc = "m_check"
    /\ IF CalibrationFailed(success)
       THEN /\ stdout' = stdout \cup {<<"calibration_failed", axis_num>>}
            /\ pc' = "exit"
            /\ UNCHANGED axis_num
       ELSE /\ IF axis_num = 0
               THEN /\ axis_num' = 1
                    /\ pc' = "ca_clear"
               ELSE /\ pc' = "m_save"
                    /\ UNCHANGED axis_num
            /\ UNCHANGED stdout
    /\ UNCHANGED <<teleVars, devVars, log, save_called, reboot_called, success>>

\* Mutant: a failure of reboot() is reported like a failure to save.
SaveAndRebootResult_RebootReported(save_raised, reboot_raised) ==
    ~save_raised /\ ~reboot_raised

\* The value save_and_reboot returns: False from the handler around the whole
\* body when save_configuration() raised, True otherwise, the handler around
\* reboot() passing over whatever reboot() raised.
SaveAndRebootResult(save_raised, reboot_raised) == ~save_raised

\* main: the branches on the value save_and_reboot returned.
MainReport(result) ==
    /\ stdout' = stdout \cup {<<IF result THEN "calibration_complete"
                                          ELSE "failed_to_save", -1>>}
    /\ pc' = "exit"

\* save_and_reboot: save_configuration(), which may raise.
SaveConfiguration ==
    /\ pc = "m_save"
    /\ save_called' = TRUE
    /\ \E raised \in BOOLEAN :
          /\ log' = Logged(-1, "save_configuration", "", IF raised THEN 1 ELSE 0)
          /\ IF raised
             THEN MainReport(SaveAndRebootResult(TRUE, FALSE))
             ELSE /\ pc' = "m_reboot"
                  /\ UNCHANGED stdout
    /\ UNCHANGED <<teleVars, devVars, reboot_called, axis_num, success>>

\* save_and_reboot: reboot(), which may raise as the connection drops; main
\* then reports.
Reboot ==
    /\ pc = "m_reboot"
    /\ reboot_called' = TRUE
    /\ \E raised \in BOOLEAN :
          /\ log' = Logged(-1, "reboot", "", IF raised THEN 1 ELSE 0)
          /\ MainReport(SaveAndRebootResult(FALSE, raised))
    /\ UNCHANGED <<teleVars, devVars, save_called, axis_num, success>>

CalProgram ==
    \/ \E response \in Responses : MainConfirm(response)
    \/ \E found \in BOOLEAN : MainConnect(found)
    \/ CalClearErrors
    \/ CalPreCheck
    \/ CalConfigure
    \/ CalRequestMotorCalibration
    \/ CalPollMotorCalibration
    \/ CalSleepMotorCalibration
    \/ CalWaitIdleMotor
    \/ CalSleepIdleMotor
    \/ CalCheckMotor
    \/ CalRequestEncoderCalibration
    \/ CalPollEncoderCalibration
    \/ CalSleepEncoderCalibration
    \/ CalWaitIdleEncoder
    \/ CalSleepIdleEncoder
    \/ CalCheckEncoder
    \/ CalMarkPreCalibrated
    \/ CalRequestClosedLoop
    \/ CalVerifyClosedLoop
    \/ CalVelocityOn
    \/ CalVelocityOff
    \/ CalRequestIdle
    \/ CalReturnTrue
    \/ MainCheckSuccess
    \/ SaveConfiguration
    \/ Reboot

\* The device as an entry point finds it: both axes idle, no request pending.
\* Error bits left from before are wiped by the first clear_errors(); faults
\* that persist are raised again by DevFault.
DeviceInit ==
    /\ current_state = [a \in Axes |-> AXIS_STATE_IDLE]
    /\ requested_state = [a \in Axes |-> AXIS_STATE_UNDEFINED]
    /\ error = [a \in Axes |-> 0]
    /\ motor_error = [a \in Axes |-> 0]
    /\ encoder_error = [a \in Axes |-> 0]
    /\ input_vel = [a \in Axes |-> 0]
    /\ vel_integrator_torque = [a \in Axes |-> 0]
    /\ faults = 0

\* No teleoperation entry point is running.
TeleIdle ==
    /\ odrv = FALSE
    /\ speed = 0
    /\ turn_speed = 0
    /\ listening = FALSE
    /\ callbacks = <<>>
    /\ last_command = "none"
    /\ move_speed = 0
    /\ steer_correction_enabled = FALSE
    /\ steer_integral = 0
    /\ since = 0
    /\ adjusts = 0
    /\ cl_requested = {}
    /\ idle_requested = {}

\* The calibration script is not running.
CalIdle ==
    /\ log = <<>>
    /\ save_called = FALSE
    /\ reboot_called = FALSE
    /\ axis_num = 0
    /\ success = RetNone
    /\ stdout = {}

\* An ODrive that was never configured.
CalInit ==
    /\ DeviceInit
    /\ control_mode = [a \in Axes |-> "unset"]
    /\ input_mode = [a \in Axes |-> "unset"]
    /\ vel_ramp_rate = [a \in Axes |-> 0]
    /\ vel_gain = [a \in Axes |-> 0]
    /\ vel_integrator_gain = [a \in Axes |-> 0]
    /\ torque_constant = [a \in Axes |-> 0]
    /\ cpr = [a \in Axes |-> 0]
    /\ pre_calibrated = [a \in Axes |-> <<FALSE, FALSE>>]
    /\ CalIdle
    /\ TeleIdle
    /\ pc = "m_confirm"

\* The device acts only while the script is connected and running.
\* Only the axis under calibration is driven; the other one rests and is not
\* read, so its own transitions are left out.
CalDevice ==
    /\ pc \notin {"m_confirm", "m_connect", "exit"}
    /\ \/ DevAccept(axis_num)
       \/ DevFinish(axis_num)
       \/ DevFault(axis_num)

CalNext == CalProgram \/ CalDevice

SpecCal == CalInit /\ [][CalNext]_vars

\* The interpreter keeps executing the script; the device owes nothing.
FairSpecCal == SpecCal /\ WF_vars(CalProgram)


\* --------------------------------------- calibrate_motors.py: print_errors
\* Largest register value decoded.
MaxMask == 15

\* Module-level names of odrive.enums with their values: the error flags of
\* the three categories up to 0x8, and names of other families. prefix is the
\* part of the name that startswith() compares.
EnumsVars ==
    {[prefix |-> "AXIS_ERROR", name |-> "AXIS_ERROR_NONE", value |-> 0],
     [prefix |-> "AXIS_ERROR", name |-> "AXIS_ERROR_INVALID_STATE", value |-> 1],
     [prefix |-> "MOTOR_ERROR", name |-> "MOTOR_ERROR_NONE", value |-> 0],
     [prefix |-> "MOTOR_ERROR",
      name |-> "MOTOR_ERROR_PHASE_RESISTANCE_OUT_OF_RANGE", value |-> 1],
     [prefix |-> "MOTOR_ERROR",
      name |-> "MOTOR_ERROR_PHASE_INDUCTANCE_OUT_OF_RANGE", value |-> 2],
     [prefix |-> "MOTOR_ERROR", name |-> "MOTOR_ERROR_DRV_FAULT", value |-> 8],
     [prefix |-> "ENCODER_ERROR", name |-> "ENCODER_ERROR_NONE", value |-> 0],
     [prefix |-> "ENCODER_ERROR", name |-> "ENCODER_ERROR_UNSTABLE_GAIN", value |-> 1],
     [prefix |-> "ENCODER_ERROR",
      name |-> "ENCODER_ERROR_CPR_POLEPAIRS_MISMATCH", value |-> 2],
     [prefix |-> "ENCODER_ERROR", name |-> "ENCODER_ERROR_NO_RESPONSE", value |-> 4],
     [prefix |-> "ENCODER_ERROR",
      name |-> "ENCODER_ERROR_UNSUPPORTED_ENCODER_MODE", value |-> 8],
     [prefix |-> "CONTROLLER_ERROR", name |-> "CONTROLLER_ERROR_OVERSPEED", value |-> 1],
     [prefix |-> "AXIS_STATE", name |-> "AXIS_STATE_IDLE", value |-> 1]}

\* f'{error_type.upper()}_ERROR'
TypePrefix(error_type) ==
    CASE error_type = "axis" -> "AXIS_ERROR"
      [] error_type = "motor" -> "MOTOR_ERROR"
      [] error_type = "encoder" -> "ENCODER_ERROR"

\* f'{error_type.capitalize()} error'
Header(error_type) ==
    CASE error_type = "axis" -> "Axis error"
      [] error_type = "motor" -> "Motor error"
      [] error_type = "encoder" -> "Encoder error"

\* error_value == error_code in place of the bit test.
BitAnd_WholeValue(x, y) == IF x = y THEN x ELSE 0

\* error_value & error_code
RECURSIVE BitAnd(_, _)
BitAnd(x, y) ==
    IF x = 0 \/ y = 0 THEN 0
    ELSE (IF x % 2 = 1 /\ y % 2 = 1 THEN 1 ELSE 0) + 2 * BitAnd(x \div 2, y \div 2)

\* What print_errors prints: nothing for 0, otherwise the header with the
\* value and the name of every entry of the category sharing a bit with it.
print_errors(error_type, error_value) ==
    IF error_value = 0
    THEN {}
    ELSE LET error_dict == {e \in EnumsVars : e.prefix = TypePrefix(error_type)}
         IN {<<Header(error_type), error_value>>}
              \cup {<<e.name, error_value>> :
                      e \in {d \in error_dict : BitAnd(error_value, d.value) # 0}}

PrintErrorsCall(here, error_type, error_value, next) ==
    /\ pc = here
    /\ stdout' = stdout \cup print_errors(error_type, error_value)
    /\ pc' = next
    /\ UNCHANGED <<devVars, teleVars, log, save_called, reboot_called,
                   axis_num, success>>

\* The three calls of the failure branch of the check before configuring.
DecodeNext ==
    \/ PrintErrorsCall("pe_axis", "axis", error[axis_num], "pe_motor")
    \/ PrintErrorsCall("pe_motor", "motor", motor_error[axis_num], "pe_encoder")
    \/ PrintErrorsCall("pe_encoder", "encoder", encoder_error[axis_num], "exit")

\* calibrate_axis has found errors on axis 0, of any value up to MaxMask.
DecodeInit ==
    /\ current_state = [a \in Axes |-> AXIS_STATE_IDLE]
    /\ requested_state = [a \in Axes |-> AXIS_STATE_UNDEFINED]
    /\ \E x, y, z \in 0..MaxMask :
          /\ x + y + z > 0
          /\ error = [a \in Axes |-> IF a = 0 THEN x ELSE 0]
          /\ motor_error = [a \in Axes |-> IF a = 0 THEN y ELSE 0]
          /\ encoder_error = [a \in Axes |-> IF a = 0 THEN z ELSE 0]
    /\ input_vel = [a \in Axes |-> 0]
    /\ vel_integrator_torque = [a \in Axes |-> 0]
    /\ faults = 0
    /\ control_mode = [a \in Axes |-> "unset"]
    /\ input_mode = [a \in Axes |-> "unset"]
    /\ vel_ramp_rate = [a \in Axes |-> 0]
    /\ vel_gain = [a \in Axes |-> 0]
    /\ vel_integrator_gain = [a \in Axes |-> 0]
    /\ torque_constant = [a \in Axes |-> 0]
    /\ cpr = [a \in Axes |-> 0]
    /\ pre_calibrated = [a \in Axes |-> <<FALSE, FALSE>>]
    /\ CalIdle
    /\ TeleIdle
    /\ pc = "pe_axis"

SpecDecode == DecodeInit /\ [][DecodeNext]_vars

\* ------------------------------------------------------- lib/motor.py
\* Key callbacks that may be in flight at once.
MaxInFlight == 2

\* SPEED and TURN_SPEED of test_wasd.py (in 0.001 turns/s), and other values
\* the configuration block may be set to.
WasdSpeed == 2000
WasdTurnSpeed == 1000
WasdSpeeds == {0, WasdSpeed}
WasdTurnSpeeds == {WasdTurnSpeed}

\* RAMP_RATE (0.001 turns/s^2), VEL_GAIN and VEL_INTEGRATOR_GAIN (1e-7).
WasdRampRate == 500
WasdVelGain == 20000000
WasdVelIntegratorGain == 10000000

\* set_ramp_rate(0.5) of Motor.start, in 0.001 turns/s^2
StartRampRate == 500

\* Motor._tune_pid: vel_integrator_gain = vel_gain * 0.3
TunedIntegratorGain(g) == (3 * g) \div 10

Both(v) == [a \in Axes |-> v]

\* Integrator torque builds up on an axis under closed-loop control.
DevWindup(a) ==
    /\ current_state[a] = AXIS_STATE_CLOSED_LOOP_CONTROL
    /\ vel_integrator_torque[a] = 0
    /\ vel_integrator_torque' = [vel_integrator_torque EXCEPT ![a] = 1]
    /\ UNCHANGED <<devState, input_vel, cfgVars, progVars>>

\* The device during teleoperation. The entry points read no error register
\* and, after the start check, no axis state: the only device behaviour they
\* can observe is whether each axis takes the requested state.
TeleDevice ==
    \E a \in Axes : DevAccept(a) \/ DevWindup(a)

\* Motor.start: odrive.find_any; None raises RuntimeError out of main.
MotorConnect ==
    /\ pc = "w_connect"
    /\ \E found \in BOOLEAN :
          /\ odrv' = found
          /\ pc' = IF found THEN "w_clear" ELSE "exit"
    /\ UNCHANGED <<devVars, calVars, speed, turn_speed, listening, callbacks,
                   standVars, cl_requested, idle_requested>>

\* Motor.start: clear_errors() on both axes.
MotorClearErrors ==
    /\ pc = "w_clear"
    /\ error' = Both(0)
    /\ motor_error' = Both(0)
    /\ encoder_error' = Both(0)
    /\ pc' = "w_modes"
    /\ UNCHANGED <<current_state, requested_state, faults, input_vel,
                   vel_integrator_torque, cfgVars, calVars, teleVars>>

\* Motor.start: velocity control, passthrough input.
MotorSetModes ==
    /\ pc = "w_modes"
    /\ control_mode' = Both(CONTROL_MODE_VELOCITY_CONTROL)
    /\ input_mode' = Both(INPUT_MODE_PASSTHROUGH)
    /\ pc' = "w_request"
    /\ UNCHANGED <<devState, input_vel, vel_integrator_torque, vel_ramp_rate,
                   vel_gain, vel_integrator_gain, torque_constant, cpr,
                   pre_calibrated, calVars, teleVars>>

\* Motor.start: closed-loop control requested on both axes.
MotorRequestClosedLoop ==
    /\ pc = "w_request"
    /\ requested_state' = Both(AXIS_STATE_CLOSED_LOOP_CONTROL)
    /\ cl_requested' = Axes
    /\ pc' = "w_verify"
    /\ UNCHANGED <<current_state, error, motor_error, encoder_error, faults,
                   input_vel, vel_integrator_torque, cfgVars, calVars,
                   motorVars, standVars, idle_requested>>

\* The start check reads axis 0 only.
AxesStarted_Axis0Only ==
    current_state[0] = AXIS_STATE_CLOSED_LOOP_CONTROL

\* Both axes are seen in closed-loop control.
AxesStarted ==
    \A a \in Axes : current_state[a] = AXIS_STATE_CLOSED_LOOP_CONTROL

\* Motor.start: an axis not in closed-loop control raises RuntimeError, which
\* main (the call is outside its try) lets end the process.
MotorVerify ==
    /\ pc = "w_verify"
    /\ pc' = IF AxesStarted THEN "w_tune" ELSE "exit"
    /\ UNCHANGED <<devVars, calVars, teleVars>>

\* Motor.start: set_ramp_rate(0.5) and _tune_pid().
MotorTune ==
    /\ pc = "w_tune"
    /\ vel_ramp_rate' = Both(StartRampRate)
    /\ vel_integrator_gain' = [a \in Axes |-> TunedIntegratorGain(vel_gain[a])]
    /\ pc' = "w_params"
    /\ UNCHANGED <<devState, input_vel, vel_integrator_torque, control_mode,
                   input_mode, vel_gain, torque_constant, cpr, pre_calibrated,
                   calVars, teleVars>>

\* ------------------------------------------------------- test_wasd.py
\* main: the custom parameters, then listen_keyboard starts.
WasdApplyParameters ==
    /\ pc = "w_params"
    /\ vel_ramp_rate' = Both(WasdRampRate)
    /\ vel_gain' = Both(WasdVelGain)
    /\ vel_integrator_gain' = Both(WasdVelIntegratorGain)
    /\ listening' = TRUE
    /\ pc' = "w_listen"
    /\ UNCHANGED <<devState, input_vel, vel_integrator_torque, control_mode,
                   input_mode, torque_constant, cpr, pre_calibrated, calVars,
                   odrv, speed, turn_speed, callbacks, standVars,
                   cl_requested, idle_requested>>

\* The arguments (left, right) a drive method hands to _set_velocity.
Forward(s) == <<s, s>>
Backward(s) == <<-s, -s>>
Left(s) == <<-s, s>>
Right(s) == <<s, -s>>

\* on_press: the method the key calls, with the default speed.
PressArgs(k) ==
    CASE k = "w" -> Forward(speed)
      [] k = "s" -> Backward(speed)
      [] k = "a" -> Left(turn_speed)
      [] k = "d" -> Right(turn_speed)

Spawn(cb) ==
    /\ pc = "w_listen"
    /\ listening
    /\ Len(callbacks) < MaxInFlight
    /\ callbacks' = Append(callbacks, cb)
    /\ UNCHANGED <<devVars, calVars, odrv, speed, turn_speed, listening,
                   standVars, cl_requested, idle_requested, pc>>

\* The keys on_press acts on.
WasdKeys == {"w", "W", "s", "S", "a", "A", "d", "D", "q", "Q"}

\* key.lower()
KeyLower(key) ==
    CASE key = "W" -> "w" [] key = "S" -> "s" [] key = "A" -> "a"
      [] key = "D" -> "d" [] key = "Q" -> "q" [] OTHER -> key

\* A key press is dispatched: on_press starts on its own.
WasdKeyPress ==
    \E key \in WasdKeys :
        LET k == KeyLower(key)
        IN IF k = "q"
           THEN Spawn([kind |-> "quit", key |-> k, left |-> 0, right |-> 0,
                       step |-> 0])
           ELSE Spawn([kind |-> "drive", key |-> k, left |-> PressArgs(k)[1],
                       right |-> PressArgs(k)[2], step |-> 0])

\* A key release is dispatched: on_release calls motor.stop().
WasdKeyRelease ==
    Spawn([kind |-> "stop", key |-> "", left |-> 0, right |-> 0, step |-> 0])

Remove(i) ==
    [j \in 1..(Len(callbacks) - 1) |-> IF j < i THEN callbacks[j] ELSE callbacks[j + 1]]

Advance(i) == [callbacks EXCEPT ![i].step = @ + 1]

\* _set_velocity without the reversal of the left motor.
SetVelocityValue_NoReversal(a, left, right) == IF a = 0 THEN left ELSE right

\* Motor._set_velocity: the value written to axis a.
SetVelocityValue(a, left, right) == IF a = 0 THEN -left ELSE right

\* One device write of a drive callback: axis0 first, then axis1.
CallbackDrive(i) ==
    /\ callbacks[i].kind = "drive"
    /\ LET cb == callbacks[i]
           a == cb.step
       IN /\ input_vel' = [input_vel EXCEPT ![a] =
                              SetVelocityValue(a, cb.left, cb.right)]
          /\ callbacks' = IF a = 1 THEN Remove(i) ELSE Advance(i)
    /\ UNCHANGED <<devState, vel_integrator_torque, cfgVars, calVars, odrv,
                   speed, turn_speed, listening, standVars, cl_requested,
                   idle_requested, pc>>

\* One device write of Motor.stop(): both setpoints, then both integrators.
CallbackStop(i) ==
    /\ callbacks[i].kind = "stop"
    /\ LET n == callbacks[i].step
       IN /\ IF n < 2
             THEN /\ input_vel' = [input_vel EXCEPT ![n] = 0]
                  /\ UNCHANGED vel_integrator_torque
             ELSE /\ vel_integrator_torque' =
                        [vel_integrator_torque EXCEPT ![n - 2] = 0]
                  /\ UNCHANGED input_vel
          /\ callbacks' = IF n = 3 THEN Remove(i) ELSE Advance(i)
    /\ UNCHANGED <<devState, cfgVars, calVars, odrv, speed, turn_speed,
                   listening, standVars, cl_requested, idle_requested, pc>>

\* on_press for 'q': stop_listening().
CallbackQuit(i) ==
    /\ callbacks[i].kind = "quit"
    /\ listening' = FALSE
    /\ callbacks' = Remove(i)
    /\ UNCHANGED <<devVars, calVars, odrv, speed, turn_speed, standVars,
                   cl_requested, idle_requested, pc>>

WasdCallback ==
    \E i \in DOMAIN callbacks :
        CallbackDrive(i) \/ CallbackStop(i) \/ CallbackQuit(i)

\* listen_keyboard returns after stop_listening(); main's finally runs.
WasdListenReturns ==
    /\ pc = "w_listen"
    /\ ~listening
    /\ pc' = "w_sd_vel0"
    /\ UNCHANGED <<devVars, calVars, teleVars>>

\* KeyboardInterrupt in the main thread: inside the try it leads to the
\* finally block, before the try it ends the process.
WasdKeyboardInterrupt ==
    /\ pc \in {"w_clear", "w_modes", "w_request", "w_verify", "w_tune",
               "w_params", "w_listen"}
    /\ IF pc = "w_listen"
       THEN /\ pc' = "w_sd_vel0"
            /\ listening' = FALSE
       ELSE /\ pc' = "exit"
            /\ UNCHANGED listening
    /\ UNCHANGED <<devVars, calVars, odrv, speed, turn_speed, callbacks,
                   standVars, cl_requested, idle_requested>>

\* Motor.shutdown: stop() ...
MotorShutdownStop ==
    /\ pc \in {"w_sd_vel0", "w_sd_vel1", "w_sd_torque"}
    /\ CASE pc = "w_sd_vel0" ->
              /\ input_vel' = [input_vel EXCEPT ![0] = 0]
              /\ pc' = "w_sd_vel1"
              /\ UNCHANGED vel_integrator_torque
         [] pc = "w_sd_vel1" ->
              /\ input_vel' = [input_vel EXCEPT ![1] = 0]
              /\ pc' = "w_sd_torque"
              /\ UNCHANGED vel_integrator_torque
         [] pc = "w_sd_torque" ->
              /\ vel_integrator_torque' = Both(0)
              /\ pc' = "w_sd_idle"
              /\ UNCHANGED input_vel
    /\ UNCHANGED <<devState, cfgVars, calVars, teleVars>>

\* ... then, after the settle time, Idle requested on both axes.
MotorShutdownIdle ==
    /\ pc = "w_sd_idle"
    /\ requested_state' = Both(AXIS_STATE_IDLE)
    /\ idle_requested' = Axes
    /\ pc' = "exit"
    /\ UNCHANGED <<current_state, error, motor_error, encoder_error, faults,
                   input_vel, vel_integrator_torque, cfgVars, calVars,
                   motorVars, standVars, cl_requested>>

WasdProgram ==
    \/ MotorConnect
    \/ MotorClearErrors
    \/ MotorSetModes
    \/ MotorRequestClosedLoop
    \/ MotorVerify
    \/ MotorTune
    \/ WasdApplyParameters
    \/ WasdKeyPress
    \/ WasdKeyRelease
    \/ WasdCallback
    \/ WasdListenReturns
    \/ WasdKeyboardInterrupt
    \/ MotorShutdownStop
    \/ MotorShutdownIdle

\* A calibrated ODrive, as calibrate_motors.py leaves it.
CalibratedInit ==
    /\ DeviceInit
    /\ control_mode = Both(CONTROL_MODE_VELOCITY_CONTROL)
    /\ input_mode = Both("unset")
    /\ vel_ramp_rate = Both(0)
    /\ vel_gain = Both(VelGainFor(TorqueConstantHall, CprHall))
    /\ vel_integrator_gain =
          Both(VelIntegratorGainFor(TorqueConstantHall, CprHall))
    /\ torque_constant = Both(TorqueConstantHall)
    /\ cpr = Both(CprHall)
    /\ pre_calibrated = Both(<<TRUE, TRUE>>)

WasdInit ==
    /\ CalibratedInit
    /\ CalIdle
    /\ odrv = FALSE
    /\ speed \in WasdSpeeds
    /\ turn_speed \in WasdTurnSpeeds
    /\ listening = FALSE
    /\ callbacks = <<>>
    /\ last_command = "none"
    /\ move_speed = 0
    /\ steer_correction_enabled = FALSE
    /\ steer_integral = 0
    /\ since = 0
    /\ adjusts = 0
    /\ cl_requested = {}
    /\ idle_requested = {}
    /\ pc = "w_connect"

\* The device runs while the process is connected.
WasdConnected ==
    {"w_clear", "w_modes", "w_request", "w_verify", "w_tune", "w_params",
     "w_listen", "w_sd_vel0", "w_sd_vel1", "w_sd_torque", "w_sd_idle"}

WasdDevice == pc \in WasdConnected /\ TeleDevice

WasdNext == WasdProgram \/ WasdDevice

SpecWasd == WasdInit /\ [][WasdNext]_vars

\* ------------------------------------- lib/motor.py: the methods by name
\* Method calls made on one Motor by the code that holds it.
MaxCalls == 2

\* The code holding the Motor goes on to call its methods: without having
\* called start(), or after catching the RuntimeError start() raised.
ClientProceeds ==
    /\ pc \in {"w_connect", "exit"}
    /\ pc' = "api"
    /\ UNCHANGED <<devVars, calVars, teleVars>>

\* A call and its outcome, appended to the log: state is "wrote" when the
\* method wrote to the device, the exception's name when it raised, ""
\* otherwise; val is the value returned.
Called(method, outcome, val) == Logged(-1, method, outcome, val)

\* stop(): guarded by 'if self._odrv'.
ApiStop ==
    /\ pc = "api"
    /\ Len(log) < MaxCalls
    /\ log' = Called("stop", IF odrv THEN "wrote" ELSE "", 0)
    /\ IF odrv
       THEN /\ input_vel' = Both(0)
            /\ vel_integrator_torque' = Both(0)
       ELSE UNCHANGED <<input_vel, vel_integrator_torque>>
    /\ UNCHANGED <<devState, cfgVars, save_called, reboot_called, axis_num,
                   success, stdout, teleVars, pc>>

\* shutdown(): guarded; stop(), then Idle on both axes.
ApiShutdown ==
    /\ pc = "api"
    /\ Len(log) < MaxCalls
    /\ log' = Called("shutdown", IF odrv THEN "wrote" ELSE "", 0)
    /\ IF odrv
       THEN /\ input_vel' = Both(0)
            /\ vel_integrator_torque' = Both(0)
            /\ requested_state' = Both(AXIS_STATE_IDLE)
            /\ idle_requested' = Axes
       ELSE UNCHANGED <<input_vel, vel_integrator_torque, requested_state,
                        idle_requested>>
    /\ UNCHANGED <<current_state, error, motor_error, encoder_error, faults,
                   cfgVars, save_called, reboot_called, axis_num, success,
                   stdout, motorVars, standVars, cl_requested, pc>>

\* set_ramp_rate(rate), set_vel_gain(gain), set_vel_integrator_gain(gain):
\* guarded, both axes.
ApiSetParameter(method, value) ==
    /\ pc = "api"
    /\ Len(log) < MaxCalls
    /\ log' = Called(method, IF odrv THEN "wrote" ELSE "", 0)
    /\ vel_ramp_rate' =
          IF odrv /\ method = "set_ramp_rate" THEN Both(value) ELSE vel_ramp_rate
    /\ vel_gain' =
          IF odrv /\ method = "set_vel_gain" THEN Both(value) ELSE vel_gain
    /\ vel_integrator_gain' =
          IF odrv /\ method = "set_vel_integrator_gain"
          THEN Both(value) ELSE vel_integrator_gain
    /\ UNCHANGED <<devState, input_vel, vel_integrator_torque, control_mode,
                   input_mode, torque_constant, cpr, pre_calibrated,
                   save_called, reboot_called, axis_num, success, stdout,
                   teleVars, pc>>

\* bus_voltage: the device's reading (in mV), or 0.0 without a device.
ApiBusVoltage ==
    /\ pc = "api"
    /\ Len(log) < MaxCalls
    /\ \E vbus_voltage \in {12000, 24000} :
          log' = Called("bus_voltage", "", IF odrv THEN vbus_voltage ELSE 0)
    /\ UNCHANGED <<devVars, save_called, reboot_called, axis_num, success,
                   stdout, teleVars, pc>>

\* forward(), backward(), left(), right(): _set_velocity unguarded; with
\* _odrv None the attribute access raises AttributeError before any write.
ApiDrive(method) ==
    /\ pc = "api"
    /\ Len(log) < MaxCalls
    /\ LET lr == CASE method = "forward" -> Forward(speed)
                   [] method = "backward" -> Backward(speed)
                   [] method = "left" -> Left(turn_speed)
                   [] method = "right" -> Right(turn_speed)
       IN IF odrv
          THEN /\ input_vel' = [a \in Axes |-> SetVelocityValue(a, lr[1], lr[2])]
               /\ log' = Called(method, "wrote", 0)
          ELSE /\ UNCHANGED input_vel
               /\ log' = Called(method, "AttributeError", 0)
    /\ UNCHANGED <<devState, vel_integrator_torque, cfgVars, save_called,
                   reboot_called, axis_num, success, stdout, teleVars, pc>>

\* A Motor is constructed; start() is called or not; the methods are called
\* in any order. The device runs while a connection is held.
MotorApiNext ==
    \/ MotorConnect
    \/ MotorClearErrors
    \/ MotorSetModes
    \/ MotorRequestClosedLoop
    \/ MotorVerify
    \/ MotorTune
    \/ ClientProceeds
    \/ ApiStop
    \/ ApiShutdown
    \/ \E method \in {"set_ramp_rate", "set_vel_gain", "set_vel_integrator_gain"},
          value \in {1000, 20000000} : ApiSetParameter(method, value)
    \/ ApiBusVoltage
    \/ \E method \in {"forward", "backward", "left", "right"} : ApiDrive(method)
    \/ (odrv /\ pc # "w_params" /\ TeleDevice)

SpecMotorApi == WasdInit /\ [][MotorApiNext]_vars

\* ------------------------------------------------- test_wasd_stand.py
\* Speed and ramp-rate adjustments made in one session.
MaxAdjust == 1

\* move_speed and turn_speed at start, their steps and limits (0.001 turns/s)
StandMoveSpeed == 600
StandTurnSpeed == 300
MoveSpeedStep == 500
MoveSpeedMax == 10000
MoveSpeedMin == 500
TurnSpeedStep == 250
TurnSpeedMax == 5000
TurnSpeedMin == 250

\* Start-up ramp rate (0.001 turns/s^2) and gains (1e-7)
StandRampRate == 500
StandVelGain == 15000000
StandVelIntegratorGain == 45000000

\* Mutant: the last entry of the menu is 20.0.
ramp_options_OffMenu ==
    [k \in {"1", "2", "3", "4", "5"} |->
        CASE k = "1" -> 500 [] k = "2" -> 1000 [] k = "3" -> 2000
          [] k = "4" -> 5000 [] k = "5" -> 20000]

\* ramp_options, in 0.001 turns/s^2
ramp_options ==
    [k \in {"1", "2", "3", "4", "5"} |->
        CASE k = "1" -> 500 [] k = "2" -> 1000 [] k = "3" -> 2000
          [] k = "4" -> 5000 [] k = "5" -> 10000]

\* Kp_steer = 1.5 as a ratio, Ki_steer = 1.0, steer_integral_limit (0.001
\* turns), and the shortest dt (ms) a correction needs to exceed.
KpSteerNum == 3
KpSteerDen == 2
KiSteer == 1
SteerIntegralLimit == 500
CorrectionPeriod == 10

\* Elapsed times (ms) since last_correction_time seen at the top of the loop.
TimePoints == {10, 500, 5000}

\* (vel0, vel1) read from the encoders, in 0.001 turns/s.
Telemetry == {<<-200, 200>>, <<-200, 0>>, <<0, 200>>, <<0, 0>>}

\* Mutant: the first argument whatever the second is.
Min_First(x, y) == x

Min(x, y) == IF x < y THEN x ELSE y
Max(x, y) == IF x > y THEN x ELSE y

Pair(v0, v1) == [a \in Axes |-> IF a = 0 THEN v0 ELSE v1]

\* main: odrive.find_any; None or an exception prints and returns.
StandConnect ==
    /\ pc = "s_connect"
    /\ \E found \in BOOLEAN :
          /\ odrv' = found
          /\ pc' = IF found THEN "s_clear" ELSE "exit"
    /\ UNCHANGED <<devVars, calVars, speed, turn_speed, listening, callbacks,
                   standVars, cl_requested, idle_requested>>

StandClearErrors ==
    /\ pc = "s_clear"
    /\ error' = Both(0)
    /\ motor_error' = Both(0)
    /\ encoder_error' = Both(0)
    /\ pc' = "s_modes"
    /\ UNCHANGED <<current_state, requested_state, faults, input_vel,
                   vel_integrator_torque, cfgVars, calVars, teleVars>>

StandSetModes ==
    /\ pc = "s_modes"
    /\ control_mode' = Both(CONTROL_MODE_VELOCITY_CONTROL)
    /\ input_mode' = Both(INPUT_MODE_PASSTHROUGH)
    /\ pc' = "s_request"
    /\ UNCHANGED <<devState, input_vel, vel_integrator_torque, vel_ramp_rate,
                   vel_gain, vel_integrator_gain, torque_constant, cpr,
                   pre_calibrated, calVars, teleVars>>

StandRequestClosedLoop ==
    /\ pc = "s_request"
    /\ requested_state' = Both(AXIS_STATE_CLOSED_LOOP_CONTROL)
    /\ cl_requested' = Axes
    /\ pc' = "s_verify"
    /\ UNCHANGED <<current_state, error, motor_error, encoder_error, faults,
                   input_vel, vel_integrator_torque, cfgVars, calVars,
                   motorVars, standVars, idle_requested>>

\* main: an axis that failed to start prints its state and returns.
StandVerify ==
    /\ pc = "s_verify"
    /\ pc' = IF AxesStarted THEN "s_tune" ELSE "exit"
    /\ UNCHANGED <<devVars, calVars, teleVars>>

\* main: ramp rate and gains written, the session's variables initialised.
StandTune ==
    /\ pc = "s_tune"
    /\ vel_ramp_rate' = Both(StandRampRate)
    /\ vel_gain' = Both(StandVelGain)
    /\ vel_integrator_gain' = Both(StandVelIntegratorGain)
    /\ move_speed' = StandMoveSpeed
    /\ turn_speed' = StandTurnSpeed
    /\ last_command' = "none"
    /\ steer_correction_enabled' = FALSE
    /\ steer_integral' = 0
    /\ since' = 0
    /\ pc' = "s_loop"
    /\ UNCHANGED <<devState, input_vel, vel_integrator_torque, control_mode,
                   input_mode, torque_constant, cpr, pre_calibrated, calVars,
                   odrv, speed, listening, callbacks, adjusts, cl_requested,
                   idle_requested>>

\* Steering correction applied to the straight commands, enabled or not.
CorrectionActive_IgnoresToggle == last_command \in {"w", "s"}

\* Steering correction applied whatever the last command is.
CorrectionActive_AnyCommand == steer_correction_enabled

\* Steering correction applies to the straight commands only.
CorrectionActive == steer_correction_enabled /\ last_command \in {"w", "s"}

\* The accumulated value passed on unclamped.
Clamp_Unbounded(x, lim) == x

Clamp(x, lim) == Max(-lim, Min(lim, x))

\* The PI controller: integral after one evaluation, and delta_v.
IntegralAfter(integral, steer_error, dt) ==
    Clamp(integral + (steer_error * dt) \div 1000, SteerIntegralLimit)

DeltaV(steer_error, integral) ==
    (KpSteerNum * steer_error) \div KpSteerDen + KiSteer * integral

\* steer_error with the left wheel's reversal left out of steer.
SteerError_Difference(vel) == 0 - (vel[2] - vel[1])

\* steer = vel0 + vel1; steer_error = 0 - steer
SteerError(vel) == 0 - (vel[1] + vel[2])

\* base_speed of the straight command.
BaseSpeed == IF last_command = "w" THEN move_speed ELSE -move_speed

\* Top of the loop: time and wheel velocities are read, and the steering
\* correction overrides the setpoints when it applies.
StandCorrectionWith(dt, vel) ==
    /\ pc = "s_loop"
    /\ dt >= since
    /\ IF CorrectionActive /\ dt > CorrectionPeriod
       THEN LET steer_error == SteerError(vel)
                integral == IntegralAfter(steer_integral, steer_error, dt)
                delta_v == DeltaV(steer_error, integral)
                base_speed == BaseSpeed
            IN /\ steer_integral' = integral
               /\ input_vel' = Pair(-base_speed - delta_v, base_speed + delta_v)
               /\ since' = 0
       ELSE /\ since' = dt
            /\ UNCHANGED <<steer_integral, input_vel>>
    /\ pc' = "s_key"
    /\ UNCHANGED <<devState, vel_integrator_torque, cfgVars, calVars,
                   motorVars, last_command, move_speed,
                   steer_correction_enabled, adjusts, cl_requested,
                   idle_requested>>

StandCorrection ==
    \E dt \in TimePoints, vel \in Telemetry : StandCorrectionWith(dt, vel)

Letters == {"w", "s", "a", "d", "e", "q", "z", "c", "x", "r"}
Upper(k) ==
    CASE k = "w" -> "W" [] k = "s" -> "S" [] k = "a" -> "A" [] k = "d" -> "D"
      [] k = "e" -> "E" [] k = "q" -> "Q" [] k = "z" -> "Z" [] k = "c" -> "C"
      [] k = "x" -> "X" [] k = "r" -> "R"

\* The keys that reach a branch of the loop, and one that reaches none.
StandKeys ==
    Letters \cup {Upper(k) : k \in Letters}
        \cup {" ", "+", "=", "-", "_", "[", "]", "esc", "ctrl_c", "other"}

\* key == lower or key == upper
Is(key, k) == key = k \/ key = Upper(k)

\* The setpoints (axis0, axis1) each drive branch writes.
KeySetpoints(cmd) ==
    CASE cmd = "w" -> <<-move_speed, move_speed>>
      [] cmd = "s" -> <<move_speed, -move_speed>>
      [] cmd = "a" -> <<turn_speed, turn_speed>>
      [] cmd = "d" -> <<-turn_speed, -turn_speed>>
      [] cmd = "e" -> <<-move_speed, 0>>
      [] cmd = "q" -> <<0, move_speed>>
      [] cmd = "z" -> <<move_speed, 0>>
      [] cmd = "c" -> <<0, -move_speed>>

\* status_msg of each drive branch.
StatusOf(cmd) ==
    CASE cmd = "w" -> "Forward"
      [] cmd = "s" -> "Backward"
      [] cmd = "a" -> "Left turn"
      [] cmd = "d" -> "Right turn"
      [] cmd = "e" -> "Left wheel fwd"
      [] cmd = "q" -> "Right wheel fwd"
      [] cmd = "z" -> "Left wheel back"
      [] cmd = "c" -> "Right wheel back"

\* The branches that reset steer_integral.
ResetsIntegral(cmd) == cmd \in {"w", "s", "a", "d"}

\* No key available (the loop sleeps and continues), or a key that no
\* branch handles.
StandNoKey(key) ==
    /\ pc = "s_key"
    /\ key \in {"none", "other"}
    /\ pc' = "s_loop"
    /\ UNCHANGED <<devVars, calVars, teleVars>>

\* W S A D E Q Z C
StandDriveKey(key) ==
    /\ pc = "s_key"
    /\ \E cmd \in {"w", "s", "a", "d", "e", "q", "z", "c"} :
          /\ Is(key, cmd)
          /\ last_command' = cmd
          /\ steer_integral' = IF ResetsIntegral(cmd) THEN 0 ELSE steer_integral
          /\ input_vel' = Pair(KeySetpoints(cmd)[1], KeySetpoints(cmd)[2])
    /\ pc' = "s_loop"
    /\ UNCHANGED <<devState, vel_integrator_torque, cfgVars, calVars,
                   motorVars, move_speed, steer_correction_enabled, since,
                   adjusts, cl_requested, idle_requested>>

\* SPACE
StandStopKey(key) ==
    /\ pc = "s_key"
    /\ key = " "
    /\ last_command' = "none"
    /\ steer_integral' = 0
    /\ input_vel' = Pair(0, 0)
    /\ vel_integrator_torque' = Both(0)
    /\ pc' = "s_loop"
    /\ UNCHANGED <<devState, cfgVars, calVars, motorVars, move_speed,
                   steer_correction_enabled, since, adjusts, cl_requested,
                   idle_requested>>

\* X
StandToggleKey(key) ==
    /\ pc = "s_key"
    /\ Is(key, "x")
    /\ steer_correction_enabled' = ~steer_correction_enabled
    /\ steer_integral' = 0
    /\ pc' = "s_loop"
    /\ UNCHANGED <<devVars, calVars, motorVars, last_command, move_speed,
                   since, adjusts, cl_requested, idle_requested>>

\* Mutant: the new move_speed is stored and the setpoints are left.
ReappliedMove_NotApplied(m) == input_vel

\* The straight commands are re-applied with the new move_speed.
ReappliedMove(m) ==
    CASE last_command = "w" -> Pair(-m, m)
      [] last_command = "s" -> Pair(m, -m)
      [] OTHER -> input_vel

\* The turn commands are re-applied with the new turn_speed.
ReappliedTurn(t) ==
    CASE last_command = "a" -> Pair(t, t)
      [] last_command = "d" -> Pair(-t, -t)
      [] OTHER -> input_vel

\* + = - _
StandMoveSpeedKey(key) ==
    /\ pc = "s_key"
    /\ key \in {"+", "=", "-", "_"}
    /\ adjusts < MaxAdjust
    /\ LET m == IF key \in {"+", "="}
                THEN Min(move_speed + MoveSpeedStep, MoveSpeedMax)
                ELSE Max(move_speed - MoveSpeedStep, MoveSpeedMin)
       IN /\ move_speed' = m
          /\ input_vel' = ReappliedMove(m)
    /\ adjusts' = adjusts + 1
    /\ pc' = "s_loop"
    /\ UNCHANGED <<devState, vel_integrator_torque, cfgVars, calVars,
                   motorVars, last_command, steer_correction_enabled,
                   steer_integral, since, cl_requested, idle_requested>>

\* [ ]
StandTurnSpeedKey(key) ==
    /\ pc = "s_key"
    /\ key \in {"[", "]"}
    /\ adjusts < MaxAdjust
    /\ LET t == IF key = "["
                THEN Min(turn_speed + TurnSpeedStep, TurnSpeedMax)
                ELSE Max(turn_speed - TurnSpeedStep, TurnSpeedMin)
       IN /\ turn_speed' = t
          /\ input_vel' = ReappliedTurn(t)
    /\ adjusts' = adjusts + 1
    /\ pc' = "s_loop"
    /\ UNCHANGED <<devState, vel_integrator_torque, cfgVars, calVars, odrv,
                   speed, listening, callbacks, last_command, move_speed,
                   steer_correction_enabled, steer_integral, since,
                   cl_requested, idle_requested>>

\* Keys get_key_blocking() may return to the ramp menu.
RampKeys == {"1", "2", "3", "4", "5", "0", "6", "r", "other"}

\* R: the loop blocks until the selection key arrives.
StandRampKey(key) ==
    /\ pc = "s_key"
    /\ Is(key, "r")
    /\ adjusts < MaxAdjust
    /\ pc' = "s_ramp"
    /\ UNCHANGED <<devVars, calVars, teleVars>>

\* The selection: a key of ramp_options sets both axes, any other none.
StandRampSelect(ramp_key) ==
    /\ pc = "s_ramp"
    /\ IF ramp_key \in DOMAIN ramp_options
       THEN vel_ramp_rate' = Both(ramp_options[ramp_key])
       ELSE UNCHANGED vel_ramp_rate
    /\ adjusts' = adjusts + 1
    /\ pc' = "s_loop"
    /\ UNCHANGED <<devState, input_vel, vel_integrator_torque, control_mode,
                   input_mode, vel_gain, vel_integrator_gain, torque_constant,
                   cpr, pre_calibrated, calVars, motorVars, last_command,
                   move_speed, steer_correction_enabled, steer_integral,
                   since, cl_requested, idle_requested>>

\* ESC or Ctrl+C read as a key: break.
StandQuitKey(key) ==
    /\ pc = "s_key"
    /\ key \in {"esc", "ctrl_c"}
    /\ pc' = "s_cleanup"
    /\ UNCHANGED <<devVars, calVars, teleVars>>

StandKey ==
    \E key \in StandKeys \cup {"none"} :
        \/ StandNoKey(key)
        \/ StandDriveKey(key)
        \/ StandStopKey(key)
        \/ StandToggleKey(key)
        \/ StandMoveSpeedKey(key)
        \/ StandTurnSpeedKey(key)
        \/ StandRampKey(key)
        \/ StandQuitKey(key)

\* KeyboardInterrupt: caught inside the loop's try, fatal outside it.
StandKeyboardInterrupt ==
    /\ pc \in {"s_clear", "s_modes", "s_request", "s_verify", "s_tune",
               "s_loop", "s_key", "s_ramp", "s_cleanup", "s_idle"}
    /\ pc' = IF pc \in {"s_loop", "s_key", "s_ramp"} THEN "s_cleanup" ELSE "exit"
    /\ UNCHANGED <<devVars, calVars, teleVars>>

\* A device access in the loop raises (link lost): no handler catches it.
StandDeviceError ==
    /\ pc \in {"s_loop", "s_key", "s_ramp"}
    /\ pc' = "exit"
    /\ UNCHANGED <<devVars, calVars, teleVars>>

\* Cleanup: zero both setpoints ...
StandCleanupStop ==
    /\ pc = "s_cleanup"
    /\ input_vel' = Pair(0, 0)
    /\ pc' = "s_idle"
    /\ UNCHANGED <<devState, vel_integrator_torque, cfgVars, calVars, teleVars>>

\* ... then Idle on both axes.
StandCleanupIdle ==
    /\ pc = "s_idle"
    /\ requested_state' = Both(AXIS_STATE_IDLE)
    /\ idle_requested' = Axes
    /\ pc' = "exit"
    /\ UNCHANGED <<current_state, error, motor_error, encoder_error, faults,
                   input_vel, vel_integrator_torque, cfgVars, calVars,
                   motorVars, standVars, cl_requested>>

StandProgram ==
    \/ StandConnect
    \/ StandClearErrors
    \/ StandSetModes
    \/ StandRequestClosedLoop
    \/ StandVerify
    \/ StandTune
    \/ StandCorrection
    \/ StandKey
    \/ \E ramp_key \in RampKeys : StandRampSelect(ramp_key)
    \/ StandKeyboardInterrupt
    \/ StandDeviceError
    \/ StandCleanupStop
    \/ StandCleanupIdle

StandInit ==
    /\ CalibratedInit
    /\ CalIdle
    /\ TeleIdle
    /\ pc = "s_connect"

\* The device runs while the process is connected.
StandConnected ==
    {"s_clear", "s_modes", "s_request", "s_verify", "s_tune", "s_loop",
     "s_key", "s_ramp", "s_cleanup", "s_idle"}

StandDevice == pc \in StandConnected /\ TeleDevice

StandNext == StandProgram \/ StandDevice

SpecStand == StandInit /\ [][StandNext]_vars

\* Speeds a session can have come to by earlier presses of the speed keys:
\* the starting values, the limits, and the last values below the upper
\* limits on the way up from the start.
AdjustedMoveSpeeds ==
    {StandMoveSpeed, MoveSpeedMin, MoveSpeedMax,
     StandMoveSpeed + 18 * MoveSpeedStep}
AdjustedTurnSpeeds ==
    {StandTurnSpeed, TurnSpeedMin, TurnSpeedMax,
     StandTurnSpeed + 18 * TurnSpeedStep}

\* A session in its loop, standing still, after earlier speed adjustments.
StandAdjustedInit ==
    /\ DeviceInit
    /\ control_mode = Both(CONTROL_MODE_VELOCITY_CONTROL)
    /\ input_mode = Both(INPUT_MODE_PASSTHROUGH)
    /\ vel_ramp_rate = Both(StandRampRate)
    /\ vel_gain = Both(StandVelGain)
    /\ vel_integrator_gain = Both(StandVelIntegratorGain)
    /\ torque_constant = Both(TorqueConstantHall)
    /\ cpr = Both(CprHall)
    /\ pre_calibrated = Both(<<TRUE, TRUE>>)
    /\ CalIdle
    /\ odrv = TRUE
    /\ speed = 0
    /\ listening = FALSE
    /\ callbacks = <<>>
    /\ move_speed \in AdjustedMoveSpeeds
    /\ turn_speed \in AdjustedTurnSpeeds
    /\ last_command = "none"
    /\ steer_correction_enabled = FALSE
    /\ steer_integral = 0
    /\ since = 0
    /\ adjusts = 0
    /\ cl_requested = Axes
    /\ idle_requested = {}
    /\ pc = "s_loop"

\* The loop and the cleanup after it.
StandLoopNext ==
    \/ StandCorrection
    \/ StandKey
    \/ \E ramp_key \in RampKeys : StandRampSelect(ramp_key)
    \/ StandCleanupStop
    \/ StandCleanupIdle

SpecStandLoop == StandAdjustedInit /\ [][StandLoopNext]_vars

\* Either teleoperation entry point, run against a calibrated device.
TeleopInit == WasdInit \/ StandInit

TeleopNext == WasdNext \/ StandNext

SpecTeleop == TeleopInit /\ [][TeleopNext]_vars

\* ---------------------------------------------- calibration: the claims
FailTags ==
    {"axis_has_errors", "motor_cal_failed", "encoder_cal_failed",
     "closed_loop_failed"}

\* calibrate_axis reported a failure for axis a.
AxisFailed(a) == \E t \in FailTags : <<t, a>> \in stdout

\* calibrate_axis reported success for axis a.
AxisSucceeded(a) == <<"axis_complete", a>> \in stdout

\* The commands (not the reads) in the log.
CommandOps ==
    {"clear_errors", "config", "requested_state", "input_vel", "pre_calibrated"}

CommandsTo(a) ==
    {i \in DOMAIN log : log[i].axis = a /\ log[i].op \in CommandOps}

\* Some error register of axis a is non-zero.
Faulted(a) == error[a] # 0 \/ motor_error[a] # 0 \/ encoder_error[a] # 0

\* The script, not the device, takes a step.
ProgramStep == pc' # pc

\* C2: axis 1 receives commands only after calibrate_axis succeeded for
\* axis 0; once axis 0 has failed, no command is ever issued to axis 1.
C2_Axis1OnlyAfterAxis0Success ==
    CommandsTo(1) # {} => (AxisSucceeded(0) /\ ~AxisFailed(0))

\* C3: save_configuration(), reboot() and the report 'Motor Calibration
\* Complete' happen only when calibrate_axis succeeded for both axes.
C3_FailureIsFatal ==
    (save_called \/ reboot_called \/ <<"calibration_complete", -1>> \in stdout)
        => \A a \in Axes : AxisSucceeded(a) /\ ~AxisFailed(a)

\* C4: a PreCheck that finds any of the three error registers non-zero
\* returns the failure, and up to that return the axis has received nothing
\* but clear_errors (no configuration write, no state request).
C4_PreCheckFaultStops ==
    [][(pc = "ca_precheck" /\ ProgramStep /\ Faulted(axis_num))
          => /\ pc' = "m_check"
             /\ success' = RetOdrvFalse
             /\ <<"axis_has_errors", axis_num>> \in stdout'
             /\ \A i \in CommandsTo(axis_num)' : log'[i].op = "clear_errors"]_vars

C4_Witness ==
    /\ <<"axis_has_errors", 0>> \in stdout
    /\ error[0] = 0
    /\ motor_error[0] # 0
    /\ pc = "m_check"

\* C5: MOTOR_CALIBRATION is never requested of an axis that reports a fault
\* after its configuration was written.
C5_FaultAfterConfigureStops ==
    [][(pc = "ca_req_mc" /\ ProgramStep) => ~Faulted(axis_num)]_vars

\* The stage events of axis a, in order: state requests, the Idle sightings
\* of wait_for_idle and the error checks.
StageOps == {"requested_state", "seen_idle", "check_motor", "check_encoder"}

StageEvent(e) == <<e.op, e.state, e.val>>

RECURSIVE StageLog(_, _)
StageLog(a, l) ==
    IF l = <<>> THEN <<>>
    ELSE LET e == l[Len(l)]
             rest == StageLog(a, SubSeq(l, 1, Len(l) - 1))
         IN IF e.axis = a /\ e.op \in StageOps
            THEN Append(rest, StageEvent(e))
            ELSE rest

\* What precedes a closed-loop request: both calibrations requested in order,
\* each followed by Idle seen and an error check that read zero.
BeforeClosedLoop ==
    << <<"requested_state", AXIS_STATE_MOTOR_CALIBRATION, 0>>,
       <<"seen_idle", AXIS_STATE_IDLE, 0>>,
       <<"check_motor", "", 0>>,
       <<"requested_state", AXIS_STATE_ENCODER_OFFSET_CALIBRATION, 0>>,
       <<"seen_idle", AXIS_STATE_IDLE, 0>>,
       <<"check_encoder", "", 0>> >>

RequestOrder ==
    << AXIS_STATE_MOTOR_CALIBRATION, AXIS_STATE_ENCODER_OFFSET_CALIBRATION,
       AXIS_STATE_CLOSED_LOOP_CONTROL, AXIS_STATE_IDLE >>

RECURSIVE RequestsOf(_, _)
RequestsOf(a, l) ==
    IF l = <<>> THEN <<>>
    ELSE LET e == l[Len(l)]
             rest == RequestsOf(a, SubSeq(l, 1, Len(l) - 1))
         IN IF e.axis = a /\ e.op = "requested_state"
            THEN Append(rest, e.state)
            ELSE rest

IsPrefix(p, q) == Len(p) <= Len(q) /\ SubSeq(q, 1, Len(p)) = p

\* C6: per axis, the state requests are a prefix of MotorCalibration,
\* EncoderOffsetCalibration, ClosedLoopControl, Idle, and a ClosedLoopControl
\* request comes only after both calibration stages were seen back in Idle
\* with an error check that read zero.
C6_StageOrder ==
    \A a \in Axes :
        /\ IsPrefix(RequestsOf(a, log), RequestOrder)
        /\ LET sl == StageLog(a, log)
           IN \A i \in DOMAIN sl :
                 sl[i] = <<"requested_state", AXIS_STATE_CLOSED_LOOP_CONTROL, 0>>
                    => SubSeq(sl, 1, i - 1) = BeforeClosedLoop

C6_Witness ==
    /\ Len(RequestsOf(1, log)) = 4
    /\ Len(RequestsOf(0, log)) = 4

\* C7: calibrate_axis, once called, eventually returns to main.
C7_CalibrateAxisReturns == (pc = "ca_clear") ~> (pc = "m_check")

\* C8: after motor calibration a non-zero axis or motor error register, and
\* after encoder calibration a non-zero axis or encoder error register, makes
\* the error check return the failure.
C8_StageErrorStops ==
    [][/\ (pc = "ca_chk_mc" /\ ProgramStep
              /\ (error[axis_num] # 0 \/ motor_error[axis_num] # 0))
          => (pc' = "m_check" /\ success' = RetOdrvFalse)
       /\ (pc = "ca_chk_eoc" /\ ProgramStep
              /\ (error[axis_num] # 0 \/ encoder_error[axis_num] # 0))
          => (pc' = "m_check" /\ success' = RetOdrvFalse)]_vars

\* C9: when the state read after the closed-loop request is not
\* ClosedLoopControl, calibrate_axis prints the closed-loop failure and the
\* axis is never written a non-zero velocity setpoint.
C9_VerifyFailureNoSpin ==
    \A i \in DOMAIN log :
        (log[i].op = "verify" /\ log[i].state # AXIS_STATE_CLOSED_LOOP_CONTROL)
            => /\ <<"closed_loop_failed", log[i].axis>> \in stdout
               /\ \A j \in DOMAIN log :
                     (log[j].axis = log[i].axis /\ log[j].op = "input_vel")
                        => log[j].val = 0

C9_Witness ==
    /\ \E i \in DOMAIN log :
          /\ log[i].op = "verify"
          /\ log[i].axis = 0
          /\ log[i].state = AXIS_STATE_ERROR
    /\ pc = "exit"


\* --------------------------------------------- teleoperation: the claims
\* C1: every exit taken after closed-loop control was requested on an axis
\* leaves both velocity setpoints at zero and Idle requested on both axes.
C1_ExitStopsAndIdles ==
    (pc = "exit" /\ cl_requested # {}) =>
        /\ \A a \in Axes : input_vel[a] = 0
        /\ idle_requested = Axes

\* The mixer table: (left-axis setpoint, right-axis setpoint) of an intent.
Mix(intent, s) ==
    CASE intent = "Forward" -> <<-s, s>>
      [] intent = "Backward" -> <<s, -s>>
      [] intent = "TurnLeft" -> <<s, s>>
      [] intent = "TurnRight" -> <<-s, -s>>
      [] intent = "LeftForward" -> <<-s, 0>>
      [] intent = "LeftBackward" -> <<s, 0>>
      [] intent = "RightForward" -> <<0, s>>
      [] intent = "RightBackward" -> <<0, -s>>
      [] intent = "Stop" -> <<0, 0>>

\* The intent of the Motor method each key of test_wasd.py calls, and the
\* speed the method uses.
MethodIntent(k) ==
    CASE k = "w" -> "Forward" [] k = "s" -> "Backward"
      [] k = "a" -> "TurnLeft" [] k = "d" -> "TurnRight"

MethodSpeed(k) == IF k \in {"w", "s"} THEN speed ELSE turn_speed

\* The intent a branch of test_wasd_stand.py announces in its status line,
\* and the speed the branch uses.
StatusIntent(status) ==
    CASE status = "Forward" -> "Forward"
      [] status = "Backward" -> "Backward"
      [] status = "Left turn" -> "TurnLeft"
      [] status = "Right turn" -> "TurnRight"
      [] status = "Left wheel fwd" -> "LeftForward"
      [] status = "Left wheel back" -> "LeftBackward"
      [] status = "Right wheel fwd" -> "RightForward"
      [] status = "Right wheel back" -> "RightBackward"

BranchSpeed(cmd) == IF cmd \in {"a", "d"} THEN turn_speed ELSE move_speed

\* Each device write of a Motor drive method or of Motor.stop is the mixer's
\* value for that axis.
MotorWritesMix ==
    \A i \in DOMAIN callbacks :
        /\ CallbackDrive(i) =>
              input_vel'[callbacks[i].step] =
                 Mix(MethodIntent(callbacks[i].key),
                     MethodSpeed(callbacks[i].key))[callbacks[i].step + 1]
        /\ (CallbackStop(i) /\ callbacks[i].step < 2) =>
              input_vel'[callbacks[i].step] = Mix("Stop", speed)[callbacks[i].step + 1]

\* Each drive branch and the stop branch of the stand loop leave the mixer's
\* pair on the device.
StandWritesMix ==
    \A key \in StandKeys :
        /\ StandDriveKey(key) =>
              <<input_vel'[0], input_vel'[1]>> =
                 Mix(StatusIntent(StatusOf(last_command')), BranchSpeed(last_command'))
        /\ StandStopKey(key) =>
              <<input_vel'[0], input_vel'[1]>> = Mix("Stop", move_speed)

\* C10: the setpoints written by a drive command are the mixer table's pair
\* for its intent and speed, for the Motor methods and for the key branches of
\* the stand loop, whatever setpoints the device held before.
C10_MixerTable == [][MotorWritesMix /\ StandWritesMix]_vars

\* A single-wheel command has replaced setpoints left by the steering
\* correction of an earlier straight command.
C10_Witness ==
    /\ pc = "s_loop"
    /\ last_command = "c"
    /\ steer_integral # 0
    /\ input_vel = Pair(0, -move_speed)

\* The stand loop is running.
InStandLoop == pc \in {"s_loop", "s_key", "s_ramp"}

\* SPACE after Forward: both setpoints, both integrator torques and the
\* steering integral are zero when the branch is done.
StopZeroes ==
    (last_command = "w" /\ StandStopKey(" ")) =>
        /\ input_vel' = Pair(0, 0)
        /\ vel_integrator_torque' = Both(0)
        /\ steer_integral' = 0
        /\ last_command' = "none"

\* While no command follows the stop, every step of the loop (correction
\* evaluations and toggles, speed and ramp keys) leaves the setpoints (0, 0)
\* and the steering integral 0.
StoppedStays ==
    (InStandLoop /\ last_command = "none" /\ last_command' = "none") =>
        /\ input_vel' = Pair(0, 0)
        /\ steer_integral' = 0

\* Each write of Motor.stop puts 0 in a setpoint or an integrator torque.
MotorStopZeroes ==
    \A i \in DOMAIN callbacks :
        CallbackStop(i) =>
            IF callbacks[i].step < 2
            THEN input_vel'[callbacks[i].step] = 0
            ELSE vel_integrator_torque'[callbacks[i].step - 2] = 0

\* C11: a Stop after Forward zeroes both setpoints, both device integrator
\* torques and the steering integral, and the setpoints stay (0, 0) until the
\* next command, also with steering correction enabled.
C11_StopAfterForward == [][StopZeroes /\ StoppedStays /\ MotorStopZeroes]_vars

\* SPACE was handled in the iteration in which a correction had just been
\* written for a straight command, with correction still enabled.
C11_Witness ==
    /\ pc = "s_loop"
    /\ last_command = "none"
    /\ steer_correction_enabled
    /\ since = 0
    /\ input_vel = Pair(0, 0)

\* The pairs one single command of test_wasd.py leaves on the device.
CommandPairs ==
    {Mix(MethodIntent(k), MethodSpeed(k)) : k \in {"w", "s", "a", "d"}}
        \cup {Mix("Stop", speed)}

\* C12: in test_wasd.py the writes of one command are not interleaved with
\* another command's, so whenever no callback is running the two setpoints
\* are the pair of one single command.
C12_SetpointPairAtomic ==
    (pc = "w_listen" /\ callbacks = <<>>) =>
        <<input_vel[0], input_vel[1]>> \in CommandPairs

\* C13: the steering integral is reset whenever the command changes, also to
\* a single-wheel command, so it is 0 in every state of the loop whose command
\* is not Forward or Backward.
C13_IntegralZeroUnlessStraight ==
    (InStandLoop /\ last_command \notin {"w", "s"}) => steer_integral = 0

\* C14: anti-windup: the steering integral stays within -limit .. +limit
\* after any number of correction evaluations.
C14_IntegralWithinLimit ==
    /\ steer_integral >= -SteerIntegralLimit
    /\ steer_integral <= SteerIntegralLimit

\* A correction evaluation has just left the integral at the limit.
C14_Witness ==
    /\ pc = "s_key"
    /\ since = 0
    /\ CorrectionActive
    /\ steer_integral = SteerIntegralLimit

\* C15: a correction evaluation with steer = vel0 + vel1 = 0 and a zero
\* integral leaves the integral 0 and writes the open-loop setpoints
\* (-base_speed, +base_speed), that is delta_v = 0.
C15_SteeringSymmetry ==
    [][\A dt \in TimePoints, vel \in Telemetry :
          (/\ StandCorrectionWith(dt, vel)
           /\ CorrectionActive
           /\ dt > CorrectionPeriod
           /\ vel[1] + vel[2] = 0
           /\ steer_integral = 0) =>
              /\ steer_integral' = 0
              /\ input_vel' = Pair(-BaseSpeed, BaseSpeed)]_vars

\* A correction has just been evaluated and left a zero integral and the
\* open-loop pair of the straight command.
C15_Witness ==
    /\ pc = "s_key"
    /\ since = 0
    /\ CorrectionActive
    /\ steer_integral = 0
    /\ input_vel = Pair(-BaseSpeed, BaseSpeed)

\* C16: the top of a loop iteration in which correction is disabled or the
\* command is not Forward or Backward changes neither the steering integral
\* nor a setpoint.
C16_CorrectionSkipped ==
    [][(/\ pc = "s_loop"
        /\ pc' = "s_key"
        /\ (~steer_correction_enabled \/ last_command \notin {"w", "s"})) =>
          UNCHANGED <<steer_integral, input_vel>>]_vars

\* The loop top has passed with correction enabled and a turn command, the
\* turn's setpoints still on the device.
C16_Witness ==
    /\ pc = "s_key"
    /\ steer_correction_enabled
    /\ last_command = "a"
    /\ since > CorrectionPeriod
    /\ input_vel = Pair(turn_speed, turn_speed)

\* The mixer pair of the stand loop's current command at the current speeds.
CurrentMix ==
    IF last_command = "none"
    THEN Mix("Stop", move_speed)
    ELSE Mix(StatusIntent(StatusOf(last_command)), BranchSpeed(last_command))

\* C17: after a loop iteration in which steering correction is not active
\* (disabled, or the command is not Forward or Backward), the device holds the
\* mixer pair of the current command at the current move and turn speed.
C17_OpenLoopSetpointsAreMix ==
    (/\ pc = "s_loop"
     /\ (~steer_correction_enabled \/ last_command \notin {"w", "s"})) =>
        <<input_vel[0], input_vel[1]>> = CurrentMix

\* Motor.start has returned: main is about to apply its own parameters.
StartReturned == pc = "w_params"

\* C18: Motor.start returns only with both axes in closed-loop control,
\* velocity control and passthrough input on both, the ramp rate on both and
\* vel_integrator_gain = 0.3 x vel_gain on both; otherwise it raises, and when
\* the connection fails no axis has received a command.
C18_StartOutcome ==
    /\ StartReturned =>
          \A a \in Axes :
              /\ current_state[a] = AXIS_STATE_CLOSED_LOOP_CONTROL
              /\ control_mode[a] = CONTROL_MODE_VELOCITY_CONTROL
              /\ input_mode[a] = INPUT_MODE_PASSTHROUGH
              /\ vel_ramp_rate[a] = StartRampRate
              /\ 10 * vel_integrator_gain[a] = 3 * vel_gain[a]
    /\ (pc = "exit" /\ ~odrv) =>
          /\ cl_requested = {}
          /\ idle_requested = {}
          /\ \A a \in Axes :
                /\ requested_state[a] = AXIS_STATE_UNDEFINED
                /\ input_mode[a] = "unset"
                /\ vel_ramp_rate[a] = 0
                /\ input_vel[a] = 0

\* Motor.start has returned after a successful connection.
C18_Witness ==
    /\ StartReturned
    /\ odrv
    /\ cl_requested = Axes

\* C19: gain policy: on each axis the configured vel_integrator_gain is at
\* most the configured vel_gain after every operation that writes the gains.
C19_IntegratorGainAtMostVelGain ==
    \A a \in Axes : vel_integrator_gain[a] <= vel_gain[a]

\* ------------------------------------------------- print_errors: the claim
\* The flag entries of a category's table, and whether an entry's bit is set.
TableOf(category) == {e \in EnumsVars : e.prefix = category /\ e.value # 0}

BitSet(mask, bit) == (mask \div bit) % 2 = 1

\* The names printed for a category.
NamesPrinted(category) ==
    {m[1] : m \in {n \in stdout : \E e \in EnumsVars :
                                     e.prefix = category /\ e.name = n[1]}}

Decoded(category, header, mask) ==
    /\ mask = 0 => NamesPrinted(category) = {} /\ <<header, mask>> \notin stdout
    /\ mask # 0 =>
          NamesPrinted(category) =
              {e.name : e \in {t \in TableOf(category) : BitSet(mask, t.value)}}

\* C20: decoding 0 names no fault; decoding a non-zero mask names exactly the
\* table entries of the category whose bit is set in it, and bits without an
\* entry are ignored, the decoding still running to its end.
C20_DecodeTotal ==
    (pc = "exit") =>
        /\ Decoded("AXIS_ERROR", "Axis error", error[0])
        /\ Decoded("MOTOR_ERROR", "Motor error", motor_error[0])
        /\ Decoded("ENCODER_ERROR", "Encoder error", encoder_error[0])

\* The three registers decoded: a mask with two defined bits and one
\* undefined, a mask of undefined bits only, and zero.
C20_Witness ==
    /\ pc = "exit"
    /\ motor_error[0] = 7
    /\ error[0] = 6
    /\ encoder_error[0] = 0
    /\ <<"MOTOR_ERROR_PHASE_INDUCTANCE_OUT_OF_RANGE", 7>> \in stdout

\* ------------------------------------------------------- save_and_reboot
\* C21: whether reboot() raised or not, the run that issued it reports the
\* calibration complete and never a failure to save; a run whose
\* save_configuration() raised reports the failure to save, never reports
\* completion and never issues reboot().
C21_RebootFailureIgnored ==
    \A i \in DOMAIN log :
        /\ log[i].op = "reboot" =>
              /\ <<"calibration_complete", -1>> \in stdout
              /\ <<"failed_to_save", -1>> \notin stdout
              /\ \E j \in 1..(i - 1) :
                    log[j].op = "save_configuration" /\ log[j].val = 0
        /\ (log[i].op = "save_configuration" /\ log[i].val = 1) =>
              /\ <<"failed_to_save", -1>> \in stdout
              /\ <<"calibration_complete", -1>> \notin stdout
              /\ ~reboot_called
              /\ \A j \in DOMAIN log : log[j].op # "reboot"
              /\ pc = "exit"

\* reboot() raised after the configuration was saved, and the run ended.
C21_Witness ==
    /\ pc = "exit"
    /\ \E i \in DOMAIN log : log[i].op = "reboot" /\ log[i].val = 1
    /\ <<"calibration_complete", -1>> \in stdout

\* ------------------------------------------------ main: confirmation gate
\* The answers that spell yes in some mix of cases.
SpelledYes == {"yes", "YES", "Yes"}

\* C22: the run goes on to connect exactly when the operator's answer spells
\* yes, and on to the first axis exactly when the one connection attempt
\* succeeded; otherwise it ends. Neither step touches the device, neither is
\* taken a second time, nothing is written before both have passed, and
\* nothing happens after the end.
C22_ConfirmationGate ==
    [][/\ \A response \in Responses :
             MainConfirm(response) =>
                 /\ pc' = "m_connect" <=> response \in SpelledYes
                 /\ pc' = "exit" <=> response \notin SpelledYes
       /\ \A found \in BOOLEAN :
             MainConnect(found) =>
                 /\ pc' = "ca_clear" <=> found
                 /\ pc' = "exit" <=> ~found
       /\ pc \in {"m_confirm", "m_connect"} =>
             UNCHANGED <<devVars, log, save_called, reboot_called>>
       /\ pc' # "m_confirm"
       /\ pc' = "m_connect" => pc = "m_confirm"
       /\ log' # log => pc \notin {"m_confirm", "m_connect", "exit"}
       /\ pc # "exit"]_vars

\* The run ended without a device access: the operator refused, or the
\* connection failed.
C22_Witness ==
    /\ pc = "exit"
    /\ log = <<>>
    /\ ~save_called
    /\ stdout = {}

\* ------------------------------------------------- stop before idle
\* C23: a step that requests Idle requests it on both axes, finds the last
\* setpoint written to each axis at zero, and comes after the shutdown's own
\* zero writes.
C23_ZeroBeforeIdle ==
    [][(idle_requested' # idle_requested) =>
           /\ pc \in {"w_sd_idle", "s_idle"}
           /\ idle_requested' = Axes
           /\ \A a \in Axes : requested_state'[a] = AXIS_STATE_IDLE
           /\ \A a \in Axes : input_vel[a] = 0]_vars

\* ------------------------------------------------- press and release
\* C24: when the handler of a key release returns and no other key handler
\* is running, both velocity setpoints are zero.
C24_ReleaseStops ==
    [][(/\ Len(callbacks) = 1
        /\ callbacks[1].kind = "stop"
        /\ callbacks' = <<>>) =>
           \A a \in Axes : input_vel'[a] = 0]_vars

\* ------------------------------------------------------- ramp menu
\* The menu of the specification, in 0.001 turns/s^2.
RampMenu == {500, 1000, 2000, 5000, 10000}

\* C25: a selection '1'..'5' writes one rate of the menu to both axes; any
\* other selection leaves the ramp rates as they were; no selection changes
\* the last command, the speeds or the setpoints.
C25_RampSelection ==
    [][\A ramp_key \in RampKeys :
          StandRampSelect(ramp_key) =>
              /\ ramp_key \in {"1", "2", "3", "4", "5"} =>
                    /\ vel_ramp_rate'[0] \in RampMenu
                    /\ vel_ramp_rate'[1] = vel_ramp_rate'[0]
              /\ ramp_key \notin {"1", "2", "3", "4", "5"} =>
                    UNCHANGED vel_ramp_rate
              /\ UNCHANGED <<last_command, move_speed, turn_speed, input_vel>>]_vars

\* The top rate of the menu was selected while the stand drove forward.
C25_Witness ==
    /\ pc = "s_loop"
    /\ vel_ramp_rate = Both(10000)
    /\ last_command = "w"
    /\ input_vel # Both(0)

\* -------------------------------------------------- single-wheel keys
\* The setpoints (axis0, axis1) the documented controls give each
\* single-wheel key: Q left wheel forward, E right wheel forward, Z left
\* wheel backward, C right wheel backward.
Documented(cmd) ==
    CASE cmd = "q" -> <<-move_speed, 0>>
      [] cmd = "e" -> <<0, move_speed>>
      [] cmd = "z" -> <<move_speed, 0>>
      [] cmd = "c" -> <<0, -move_speed>>

\* C26: the branch of each single-wheel key writes the setpoints the
\* documented controls give the key.
C26_SingleWheelKeysAsDocumented ==
    [][\A cmd \in {"q", "e", "z", "c"} :
          \A key \in {cmd, Upper(cmd)} :
              StandDriveKey(key) =>
                  input_vel' = Pair(Documented(cmd)[1], Documented(cmd)[2])]_vars

\* ------------------------------------------------------- velocity test
\* What the script did to axis a after its closed-loop test passed.
AfterVerified(a) ==
    LET passed == {i \in DOMAIN log :
                      /\ log[i].axis = a
                      /\ log[i].op = "verify"
                      /\ log[i].state = AXIS_STATE_CLOSED_LOOP_CONTROL}
    IN IF passed = {}
       THEN <<>>
       ELSE LET v == CHOOSE i \in passed : TRUE
                after == SelectSeq(SubSeq(log, v + 1, Len(log)),
                                   LAMBDA e : e.axis = a)
            IN [i \in DOMAIN after |->
                   <<after[i].op, after[i].state, after[i].val>>]

\* Setpoint 0.5, setpoint 0, Idle.
VelocityTestOrder ==
    <<<<"input_vel", "", 500>>, <<"input_vel", "", 0>>,
      <<"requested_state", AXIS_STATE_IDLE, 0>>>>

\* C27: after the closed-loop test of an axis passed, the script writes
\* setpoint 0.5, then setpoint 0, then requests Idle, nothing else and in this
\* order; once the three are done it returns True, whatever errors the axis
\* shows by then.
C27_VelocityTestOrder ==
    \A a \in Axes :
        /\ IsPrefix(AfterVerified(a), VelocityTestOrder)
        /\ (a = axis_num /\ pc = "m_check" /\ AfterVerified(a) # <<>>) =>
              /\ AfterVerified(a) = VelocityTestOrder
              /\ success = RetTrue
              /\ <<"axis_complete", a>> \in stdout

\* Axis 0 was reported calibrated although a fault arose during its
\* velocity test.
C27_Witness ==
    /\ pc = "m_check"
    /\ axis_num = 0
    /\ success = RetTrue
    /\ error[0] # 0
    /\ AfterVerified(0) = VelocityTestOrder

\* ------------------------------------------------- pre_calibrated flags
\* The check named op of axis a is in the log before position n, and found
\* the axis error register at zero.
PassedBefore(a, op, n) ==
    \E i \in 1..(n - 1) : log[i].axis = a /\ log[i].op = op /\ log[i].val = 0

\* The messages of the failure returns ahead of the marking.
EarlyFailTags == {"axis_has_errors", "motor_cal_failed", "encoder_cal_failed"}

\* C28: the pre_calibrated flags of an axis are written, both together, only
\* after the checks that follow its motor calibration and its encoder
\* calibration both passed; an axis that failed its check before
\* configuring, after motor calibration or after encoder calibration has
\* both flags as they were.
C28_MarkOnlyAfterBothChecks ==
    \A a \in Axes :
        /\ pre_calibrated[a] \in {<<FALSE, FALSE>>, <<TRUE, TRUE>>}
        /\ pre_calibrated[a] = <<TRUE, TRUE>> <=>
              \E n \in DOMAIN log : log[n].axis = a /\ log[n].op = "pre_calibrated"
        /\ \A n \in DOMAIN log :
              (log[n].axis = a /\ log[n].op = "pre_calibrated") =>
                  /\ PassedBefore(a, "check_motor", n)
                  /\ PassedBefore(a, "check_encoder", n)
        /\ (\E tag \in EarlyFailTags : <<tag, a>> \in stdout) =>
              pre_calibrated[a] = <<FALSE, FALSE>>

\* Axis 0 was marked, and axis 1 failed its encoder check and was not.
C28_Witness ==
    /\ pre_calibrated[0] = <<TRUE, TRUE>>
    /\ pre_calibrated[1] = <<FALSE, FALSE>>
    /\ <<"encoder_cal_failed", 1>> \in stdout
    /\ pc = "exit"

\* ------------------------------------------------------ gain derivation
\* The configuration writes of axis a are done.
Configured(a) == \E i \in DOMAIN log : log[i].axis = a /\ log[i].op = "config"

\* C29: once an axis is configured, its torque constant is 8.27 / 16 and its
\* cpr 90, its vel_gain is 0.02 x torque_constant x cpr of these registers
\* (0.930375) and its vel_integrator_gain 0.1 x torque_constant x cpr
\* (4.651875), five times the vel_gain. Gains in 1e-7.
C29_GainsFromRegisters ==
    \A a \in Axes :
        Configured(a) =>
            /\ torque_constant[a] = 5168750
            /\ cpr[a] = 90
            /\ 100 * vel_gain[a] = 2 * torque_constant[a] * cpr[a]
            /\ 10 * vel_integrator_gain[a] = torque_constant[a] * cpr[a]
            /\ vel_gain[a] = 9303750
            /\ vel_integrator_gain[a] = 5 * vel_gain[a]

\* Axis 1 has just been configured, after axis 0.
C29_Witness ==
    /\ pc = "ca_req_mc"
    /\ axis_num = 1
    /\ Configured(1)
    /\ vel_integrator_gain[1] = 46518750

\* ------------------------------------------------ the failure result
\* C30: when calibrate_axis has returned from a failure of the axis, the
\* value it returned is one its caller's test takes for a failure.
C30_FailureReadAsFailure ==
    (pc = "m_check" /\ AxisFailed(axis_num)) => CalibrationFailed(success)

\* ------------------------------------------------------- polling race
\* C31: when the script requests encoder offset calibration, or closed-loop
\* control, of an axis, the device has taken up the request of the stage
\* before: no earlier request of the axis is still pending.
C31_StageRanBeforeNextRequest ==
    [][(/\ pc \in {"ca_req_eoc", "ca_req_cl"}
        /\ requested_state'[axis_num] # requested_state[axis_num]
        /\ ProgramStep) =>
           requested_state[axis_num] = AXIS_STATE_UNDEFINED]_vars

\* ------------------------------------------------ dt of the correction
Abs(x) == IF x < 0 THEN -x ELSE x

\* C32: an evaluation that starts from a zero integral (after a reset, or
\* after correction became active) leaves an integral of at most the steer
\* error times the time passed since the loop pass before it, the pass in
\* which the key that reset it was read: the time that had gone by up to
\* that pass is not part of dt. Time in ms, integral in 0.001 turns.
C32_DtSinceLastEvaluation ==
    [][\A dt \in TimePoints, vel \in Telemetry :
          (/\ StandCorrectionWith(dt, vel)
           /\ steer_correction_enabled
           /\ last_command \in {"w", "s"}
           /\ dt > CorrectionPeriod
           /\ steer_integral = 0) =>
              1000 * Abs(steer_integral') <= Abs(SteerError(vel)) * (dt - since)]_vars

\* ------------------------------------------- the axis after the return
\* The state requests the script made of axis a, in order.
Requested(a) ==
    SelectSeq(log, LAMBDA e : e.axis = a /\ e.op = "requested_state")

\* C33: when calibrate_axis has returned, the last state it requested of the
\* axis is not ClosedLoopControl, and the velocity setpoint of the axis is
\* zero.
C33_ReturnLeavesAxisSafe ==
    (pc = "m_check") =>
        /\ input_vel[axis_num] = 0
        /\ Requested(axis_num) # <<>> =>
              Requested(axis_num)[Len(Requested(axis_num))].state
                  # AXIS_STATE_CLOSED_LOOP_CONTROL

\* ------------------------------------------------- after the shutdown
\* C34: once Idle has been requested on both axes, no step writes a non-zero
\* velocity setpoint to an axis.
C34_NoDriveAfterShutdown ==
    [][idle_requested = Axes =>
          \A a \in Axes : input_vel'[a] = input_vel[a] \/ input_vel'[a] = 0]_vars

\* ------------------------------------------------- the unstarted Motor
\* The calls made on the Motor, none of them after a start() that returned.
Calls == SelectSeq(log, LAMBDA e : e.axis = -1)

\* C35: on a Motor whose start() has not returned, no method writes to the
\* device: stop, shutdown and the three setters do nothing and raise nothing,
\* bus_voltage returns 0.0, and forward, backward, left and right raise.
C35_UnstartedMotorIsInert ==
    \A i \in DOMAIN Calls :
        /\ Calls[i].state # "wrote"
        /\ Calls[i].op \in {"stop", "shutdown", "set_ramp_rate", "set_vel_gain",
                            "set_vel_integrator_gain"} => Calls[i].state = ""
        /\ Calls[i].op = "bus_voltage" => Calls[i].val = 0
        /\ Calls[i].op \in {"forward", "backward", "left", "right"} =>
              Calls[i].state = "AttributeError"

\* -------------------------------------------------------- speed bounds
\* A step that handles a key.
KeyHandled == pc = "s_key" /\ pc' # pc

\* C36: every step leaves move_speed within [0.5, 10.0] and turn_speed
\* within [0.25, 5.0]; a move-speed key changes move_speed by 0.5 up or down,
\* or to the limit on its side when the step would pass it, and leaves
\* turn_speed alone; a turn-speed key likewise with 0.25; a setpoint that a
\* key handler changes is at most 10.0 in magnitude afterwards (the steering
\* correction, not a key handler, may go beyond). Speeds in 0.001 turns/s.
C36_SpeedBounds ==
    [][/\ move_speed' >= 500 /\ move_speed' <= 10000
       /\ turn_speed' >= 250 /\ turn_speed' <= 5000
       /\ \A key \in {"+", "="} :
             StandMoveSpeedKey(key) =>
                 /\ move_speed' = IF move_speed + 500 > 10000
                                  THEN 10000 ELSE move_speed + 500
                 /\ turn_speed' = turn_speed
       /\ \A key \in {"-", "_"} :
             StandMoveSpeedKey(key) =>
                 /\ move_speed' = IF move_speed - 500 < 500
                                  THEN 500 ELSE move_speed - 500
                 /\ turn_speed' = turn_speed
       /\ StandTurnSpeedKey("[") =>
             /\ turn_speed' = IF turn_speed + 250 > 5000
                              THEN 5000 ELSE turn_speed + 250
             /\ move_speed' = move_speed
       /\ StandTurnSpeedKey("]") =>
             /\ turn_speed' = IF turn_speed - 250 < 250
                              THEN 250 ELSE turn_speed - 250
             /\ move_speed' = move_speed
       /\ KeyHandled =>
             \A a \in Axes :
                 input_vel'[a] # input_vel[a] =>
                     input_vel'[a] <= 10000 /\ input_vel'[a] >= -10000]_vars

\* Driving forward at 9.6, '+' was pressed: the speed stopped at the limit
\* and the setpoints were written again.
C36_Witness ==
    /\ pc = "s_loop"
    /\ adjusts = 1
    /\ move_speed = 10000
    /\ last_command = "w"
    /\ input_vel = Pair(-10000, 10000)

\* ------------------------------------------ speed keys and the setpoints
\* C37: a move-speed key pressed while the last command is forward or
\* backward writes both setpoints anew as that command's pair at the new
\* move_speed, and a turn-speed key pressed during a left or right turn as
\* the turn's pair at the new turn_speed; a move-speed key during a turn or
\* at rest, and a turn-speed key during any command that is not a turn or at
\* rest, leave both setpoints as they are; no speed key changes the last
\* command or the steering integral.
C37_SpeedKeyReapplies ==
    [][/\ \A key \in {"+", "=", "-", "_"} :
             StandMoveSpeedKey(key) =>
                 /\ last_command = "w" =>
                       input_vel' = Pair(-move_speed', move_speed')
                 /\ last_command = "s" =>
                       input_vel' = Pair(move_speed', -move_speed')
                 /\ last_command \in {"a", "d", "none"} => UNCHANGED input_vel
                 /\ UNCHANGED <<last_command, steer_integral>>
       /\ \A key \in {"[", "]"} :
             StandTurnSpeedKey(key) =>
                 /\ last_command = "a" =>
                       input_vel' = Pair(turn_speed', turn_speed')
                 /\ last_command = "d" =>
                       input_vel' = Pair(-turn_speed', -turn_speed')
                 /\ last_command \notin {"a", "d"} => UNCHANGED input_vel
                 /\ UNCHANGED <<last_command, steer_integral>>]_vars

\* Driving backward at the start speed, '+' was pressed: both setpoints
\* were written anew at 1.1.
C37_Witness ==
    /\ pc = "s_loop"
    /\ adjusts = 1
    /\ last_command = "s"
    /\ move_speed = 1100
    /\ input_vel = Pair(1100, -1100)

====
